---- MODULE Spec2Model ----
(***************************************************************************)
(* A model of the openclaw vault: the age-encrypted secret file, the       *)
(* KEY=VALUE plaintext codec, the provider registry and the `openclaw      *)
(* vault` commands (init, status, add, remove, list, migrate).             *)
(*                                                                         *)
(* Strings are sequences of one-character strings, so that split, trim,    *)
(* indexOf, slice and the regular expressions of the source are computed   *)
(* character by character.                                                 *)
(***************************************************************************)
EXTENDS Integers, Sequences, FiniteSets, TLC

(***************************************************************************)
(* Bounds of the model.                                                    *)
(***************************************************************************)
\* longest secret value the codec specification draws
MaxValLen == 2
\* number of age keypairs that can be generated in one behaviour
MaxKeys == 2

(***************************************************************************)
(* String helpers (JavaScript String methods).                             *)
(***************************************************************************)
NL == "\n"
DQ == "\""
SQ == "'"

\* String.prototype.trim: the white space it strips
IsSpace(c) == c \in {" ", "\t", "\r", NL}

RECURSIVE IndexFrom(_, _, _)
IndexFrom(s, c, i) ==
  IF i > Len(s) THEN 0 ELSE IF s[i] = c THEN i ELSE IndexFrom(s, c, i+1)

\* s.indexOf(c), 1-based; 0 when c does not occur
IndexOf(s, c) == IndexFrom(s, c, 1)

RECURSIVE TrimStart(_)
TrimStart(s) == IF s # <<>> /\ IsSpace(Head(s)) THEN TrimStart(Tail(s)) ELSE s

RECURSIVE TrimEnd(_)
TrimEnd(s) ==
  IF s # <<>> /\ IsSpace(s[Len(s)]) THEN TrimEnd(SubSeq(s, 1, Len(s)-1)) ELSE s

Trim(s) == TrimEnd(TrimStart(s))

\* s.split(c)
RECURSIVE Split(_, _)
Split(s, c) ==
  LET p == IndexOf(s, c)
  IN  IF p = 0 THEN <<s>>
      ELSE <<SubSeq(s, 1, p-1)>> \o Split(SubSeq(s, p+1, Len(s)), c)

\* lines.join(c)
RECURSIVE Join(_, _)
Join(ss, c) ==
  IF ss = <<>> THEN <<>>
  ELSE IF Len(ss) = 1 THEN ss[1]
  ELSE ss[1] \o <<c>> \o Join(Tail(ss), c)

StartsWith(s, c) == s # <<>> /\ s[1] = c
EndsWith(s, c) == s # <<>> /\ s[Len(s)] = c

\* all strings over chars of length at most n
RECURSIVE StringsUpTo(_, _)
StringsUpTo(chars, n) ==
  IF n = 0 THEN {<<>>}
  ELSE LET shorter == StringsUpTo(chars, n-1)
       IN  shorter \cup {Append(s, c) : s \in shorter, c \in chars}

(***************************************************************************)
(* Map<string, string>: a sequence of <<key, value>> entries in insertion  *)
(* order, with pairwise distinct keys.                                     *)
(***************************************************************************)
EmptyMap == <<>>

MapKeys(m) == {m[i][1] : i \in DOMAIN m}
MapHas(m, k) == k \in MapKeys(m)
MapGet(m, k) == m[CHOOSE i \in DOMAIN m : m[i][1] = k][2]
MapEntries(m) == {m[i] : i \in DOMAIN m}

\* Map.prototype.set: overwrite in place, or append
MapSet(m, k, v) ==
  IF MapHas(m, k)
  THEN [i \in DOMAIN m |-> IF m[i][1] = k THEN <<k, v>> ELSE m[i]]
  ELSE Append(m, <<k, v>>)

\* Map.prototype.delete
RECURSIVE MapDelete(_, _)
MapDelete(m, k) ==
  IF m = <<>> THEN <<>>
  ELSE IF Head(m)[1] = k THEN Tail(m)
  ELSE <<Head(m)>> \o MapDelete(Tail(m), k)

\* two maps hold the same entries (Map equality ignores insertion order)
SameMap(m1, m2) == MapEntries(m1) = MapEntries(m2)

(***************************************************************************)
(* Secret parsing / serialization (KEY=VALUE format).                      *)
(***************************************************************************)
\* the quote stripping of parseVaultSecrets
StripQuotes(value) ==
  IF Len(value) >= 2
     /\ (   (StartsWith(value, DQ) /\ EndsWith(value, DQ))
         \/ (StartsWith(value, SQ) /\ EndsWith(value, SQ)))
  THEN SubSeq(value, 2, Len(value)-1)
  ELSE value

\* one iteration of the loop of parseVaultSecrets
ParseLine(secrets, rawLine) ==
  LET line  == Trim(rawLine)
      eqIdx == IndexOf(line, "=")
  IN  IF line = <<>> \/ StartsWith(line, "#") THEN secrets
      ELSE IF eqIdx < 2 THEN secrets
      ELSE MapSet(secrets,
                  Trim(SubSeq(line, 1, eqIdx-1)),
                  StripQuotes(Trim(SubSeq(line, eqIdx+1, Len(line)))))

RECURSIVE ParseLines(_, _)
ParseLines(secrets, lines) ==
  IF lines = <<>> THEN secrets
  ELSE ParseLines(ParseLine(secrets, Head(lines)), Tail(lines))

parseVaultSecrets(plaintext) == ParseLines(EmptyMap, Split(plaintext, NL))

SerializeLine(entry) == entry[1] \o <<"=">> \o entry[2]

serializeVaultSecrets(secrets) ==
  IF Len(secrets) > 0
  THEN Join([i \in DOMAIN secrets |-> SerializeLine(secrets[i])], NL) \o <<NL>>
  ELSE <<>>

(***************************************************************************)
(* The age library (X25519): keypairs and authenticated encryption.        *)
(* A ciphertext decrypts only with the identity of the recipient it was    *)
(* encrypted to, and only when it is intact.                               *)
(***************************************************************************)
KeyIds == 1..MaxKeys

Identity(k) == <<"AGE-SECRET-KEY-1", k>>
Recipient(k) == <<"age1", k>>
Identities == {Identity(k) : k \in KeyIds}
Recipients == {Recipient(k) : k \in KeyIds}

identityToRecipient(identity) == <<"age1", identity[2]>>

\* generateKeypair, for the k-th keypair drawn
generateKeypair(k) ==
  [identity |-> Identity(k), recipient |-> identityToRecipient(Identity(k))]

NoFile == [kind |-> "absent", rcpt |-> <<>>, body |-> <<>>, nonce |-> <<>>]

\* Encrypter.encrypt; the nonce stands for the fresh randomness of each
\* encryption (two encryptions never give the same bytes)
AgeEncrypt(plaintext, recipient, nonce) ==
  [kind |-> "age", rcpt |-> recipient, body |-> plaintext, nonce |-> nonce]

\* what a file is after damage: bytes that are no age ciphertext
Garbage == [kind |-> "garbage", rcpt |-> <<>>, body |-> <<>>, nonce |-> <<>>]
\* a ciphertext cut short (the bytes written before a writer stopped)
Truncated(file) == [file EXCEPT !.kind = "partial"]

\* Decrypter.decrypt succeeds
AgeDecrypts(file, identity) ==
  file.kind = "age" /\ file.rcpt = identityToRecipient(identity)

(***************************************************************************)
(* Character classes of the regular expressions, and case conversion.      *)
(***************************************************************************)
UpperChars == <<"A","B","C","D","E","F","G","H","I","J","K","L","M",
                "N","O","P","Q","R","S","T","U","V","W","X","Y","Z">>
LowerChars == <<"a","b","c","d","e","f","g","h","i","j","k","l","m",
                "n","o","p","q","r","s","t","u","v","w","x","y","z">>
DigitChars == <<"0","1","2","3","4","5","6","7","8","9">>

IsUpper(c) == \E i \in DOMAIN UpperChars : UpperChars[i] = c
IsLower(c) == \E i \in DOMAIN LowerChars : LowerChars[i] = c
IsDigit(c) == \E i \in DOMAIN DigitChars : DigitChars[i] = c

LowerChar(c) ==
  IF IsUpper(c) THEN LowerChars[CHOOSE i \in DOMAIN UpperChars : UpperChars[i] = c]
  ELSE c
UpperChar(c) ==
  IF IsLower(c) THEN UpperChars[CHOOSE i \in DOMAIN LowerChars : LowerChars[i] = c]
  ELSE c

toLowerCase(s) == [i \in DOMAIN s |-> LowerChar(s[i])]
toUpperCase(s) == [i \in DOMAIN s |-> UpperChar(s[i])]

\* String(n) of a non-negative integer
RECURSIVE Decimal(_)
Decimal(n) ==
  IF n < 10 THEN <<DigitChars[n+1]>>
  ELSE Decimal(n \div 10) \o <<DigitChars[(n % 10) + 1]>>

(***************************************************************************)
(* Provider registry.                                                      *)
(***************************************************************************)
VAULT_PROVIDER_DEFAULTS ==
  <<
    [name |-> <<"o","p","e","n","a","i">>,
     port |-> 8081, secretName |-> <<"O","P","E","N","A","I","_","A","P","I","_","K","E","Y">>],
    [name |-> <<"a","n","t","h","r","o","p","i","c">>,
     port |-> 8082, secretName |-> <<"A","N","T","H","R","O","P","I","C","_","A","P","I","_","K","E","Y">>],
    [name |-> <<"d","e","e","p","g","r","a","m">>,
     port |-> 8083, secretName |-> <<"D","E","E","P","G","R","A","M","_","A","P","I","_","K","E","Y">>],
    [name |-> <<"o","p","e","n","a","i","-","c","o","m","p","a","t">>,
     port |-> 8084, secretName |-> <<"O","P","E","N","A","I","_","C","O","M","P","A","T","_","A","P","I","_","K","E","Y">>],
    [name |-> <<"g","o","o","g","l","e">>,
     port |-> 8085, secretName |-> <<"G","E","M","I","N","I","_","A","P","I","_","K","E","Y">>],
    [name |-> <<"g","r","o","q">>,
     port |-> 8086, secretName |-> <<"G","R","O","Q","_","A","P","I","_","K","E","Y">>],
    [name |-> <<"x","a","i">>,
     port |-> 8087, secretName |-> <<"X","A","I","_","A","P","I","_","K","E","Y">>],
    [name |-> <<"m","i","s","t","r","a","l">>,
     port |-> 8088, secretName |-> <<"M","I","S","T","R","A","L","_","A","P","I","_","K","E","Y">>],
    [name |-> <<"b","r","a","v","e">>,
     port |-> 8089, secretName |-> <<"B","R","A","V","E","_","A","P","I","_","K","E","Y">>],
    [name |-> <<"p","e","r","p","l","e","x","i","t","y">>,
     port |-> 8090, secretName |-> <<"P","E","R","P","L","E","X","I","T","Y","_","A","P","I","_","K","E","Y">>]
  >>

\* the value undefined (no string is a sequence holding this element)
Undefined == <<"undefined">>

\* VAULT_PROVIDER_DEFAULTS[name]: the index of the entry, 0 when there is none
RegistryIndex(name) ==
  IF \E i \in DOMAIN VAULT_PROVIDER_DEFAULTS : VAULT_PROVIDER_DEFAULTS[i].name = name
  THEN CHOOSE i \in DOMAIN VAULT_PROVIDER_DEFAULTS : VAULT_PROVIDER_DEFAULTS[i].name = name
  ELSE 0

providerSecretName(provider) ==
  LET i == RegistryIndex(toLowerCase(provider))
  IN  IF i = 0 THEN Undefined ELSE VAULT_PROVIDER_DEFAULTS[i].secretName

\* VALID_HOSTNAME = /^[a-zA-Z0-9][a-zA-Z0-9._-]*$/
ValidHostname(h) ==
  /\ h # <<>>
  /\ IsUpper(h[1]) \/ IsLower(h[1]) \/ IsDigit(h[1])
  /\ \A i \in 2..Len(h) :
       IsUpper(h[i]) \/ IsLower(h[i]) \/ IsDigit(h[i]) \/ h[i] \in {".", "_", "-"}

\* VALID_PROVIDER_NAME = /^[a-z][a-z0-9_-]*$/
ValidProviderName(n) ==
  /\ n # <<>>
  /\ IsLower(n[1])
  /\ \A i \in 2..Len(n) : IsLower(n[i]) \/ IsDigit(n[i]) \/ n[i] \in {"_", "-"}

\* VALID_SECRET_NAME = /^[A-Z][A-Z0-9_]*$/
ValidSecretName(n) ==
  /\ n # <<>>
  /\ IsUpper(n[1])
  /\ \A i \in 2..Len(n) : IsUpper(n[i]) \/ IsDigit(n[i]) \/ n[i] = "_"

HttpPrefix == <<"h","t","t","p",":","/","/">>

\* `http://${host}:${port}`
ProxyUrl(host, port) == HttpPrefix \o host \o <<":">> \o Decimal(port)

\* providerProxyUrl: [err, url]; url is Undefined for a provider outside the
\* registry, err is "InvalidHostname" when validateProxyHost throws
providerProxyUrl(provider, proxyHost) ==
  LET i == RegistryIndex(toLowerCase(provider))
  IN  IF i = 0 THEN [err |-> "", url |-> Undefined]
      ELSE IF ~ValidHostname(proxyHost) THEN [err |-> "InvalidHostname", url |-> Undefined]
      ELSE [err |-> "", url |-> ProxyUrl(proxyHost, VAULT_PROVIDER_DEFAULTS[i].port)]

\* buildDefaultProxyMap: [err, proxies]
buildDefaultProxyMap(proxyHost) ==
  IF ~ValidHostname(proxyHost) THEN [err |-> "InvalidHostname", proxies |-> EmptyMap]
  ELSE [err |-> "",
        proxies |-> [i \in DOMAIN VAULT_PROVIDER_DEFAULTS |->
                       <<VAULT_PROVIDER_DEFAULTS[i].name,
                         ProxyUrl(proxyHost, VAULT_PROVIDER_DEFAULTS[i].port)>>]]

\* findProviderBySecretName: the provider name, Undefined when none matches
findProviderBySecretName(secretName) ==
  IF \E i \in DOMAIN VAULT_PROVIDER_DEFAULTS :
       VAULT_PROVIDER_DEFAULTS[i].secretName = secretName
  THEN VAULT_PROVIDER_DEFAULTS[
         CHOOSE i \in DOMAIN VAULT_PROVIDER_DEFAULTS :
           /\ VAULT_PROVIDER_DEFAULTS[i].secretName = secretName
           /\ \A j \in 1..(i-1) : VAULT_PROVIDER_DEFAULTS[j].secretName # secretName].name
  ELSE Undefined

\* the object spread {...a, ...b}
RECURSIVE Spread(_, _)
Spread(a, b) ==
  IF b = <<>> THEN a ELSE Spread(MapSet(a, Head(b)[1], Head(b)[2]), Tail(b))


(***************************************************************************)
(* The structured configuration (openclaw.json), as far as the vault reads *)
(* and writes it:                                                          *)
(*   enabled, publicKey, proxies   vault.enabled, vault.publicKey,         *)
(*                                 vault.proxies (provider -> URL)         *)
(*   providers                     models.providers (name -> apiKey, or    *)
(*                                 Undefined when the entry has no apiKey) *)
(*   channels                      channels, a JSON object                 *)
(* A JSON object is a Map whose values are nodes: Str(s) or Obj(entries).  *)
(***************************************************************************)
Str(s) == [t |-> "str", v |-> s]
Obj(entries) == [t |-> "obj", v |-> entries]
\* the value of a key that is not there
Absent == [t |-> "undefined", v |-> <<>>]

\* obj[key] of a JSON object node; Absent when the key is missing
Field(obj, key) == IF MapHas(obj.v, key) THEN MapGet(obj.v, key) ELSE Absent

IsObj(node) == node.t = "obj"
\* typeof node === "string" && node.trim()
IsToken(node) == node.t = "str" /\ Trim(node.v) # <<>>

VAULT_PROXY_PLACEHOLDER_KEY ==
  <<"v","a","u","l","t","-","p","r","o","x","y","-","m","a","n","a","g","e","d">>

S_API_KEY == <<"_","A","P","I","_","K","E","Y">>
S_accounts == <<"a","c","c","o","u","n","t","s">>
S_channelsDot == <<"c","h","a","n","n","e","l","s",".">>

\* providerName.toUpperCase().replace(/[^A-Z0-9]/g, "_") + "_API_KEY"
FallbackSecretName(providerName) ==
  LET up == toUpperCase(providerName)
  IN  [i \in DOMAIN up |-> IF IsUpper(up[i]) \/ IsDigit(up[i]) THEN up[i] ELSE "_"]
      \o S_API_KEY

\* the static channel-token table (channel, secretName, tokenField)
VAULT_CHANNEL_DEFAULTS ==
  <<
    [channel |-> <<"t","e","l","e","g","r","a","m">>,
     secretName |-> <<"T","E","L","E","G","R","A","M","_","B","O","T","_","T","O","K","E","N">>,
     tokenField |-> <<"b","o","t","T","o","k","e","n">>],
    [channel |-> <<"d","i","s","c","o","r","d">>,
     secretName |-> <<"D","I","S","C","O","R","D","_","B","O","T","_","T","O","K","E","N">>,
     tokenField |-> <<"t","o","k","e","n">>],
    [channel |-> <<"s","l","a","c","k">>,
     secretName |-> <<"S","L","A","C","K","_","B","O","T","_","T","O","K","E","N">>,
     tokenField |-> <<"b","o","t","T","o","k","e","n">>],
    [channel |-> <<"s","l","a","c","k">>,
     secretName |-> <<"S","L","A","C","K","_","A","P","P","_","T","O","K","E","N">>,
     tokenField |-> <<"a","p","p","T","o","k","e","n">>]
  >>

(***************************************************************************)
(* migrate: the scan of the configuration.                                 *)
(***************************************************************************)
\* the loop over models.providers: [err, list]; list holds the providers to
\* migrate as [providerName, apiKey, secretName]
RECURSIVE ScanProviders(_, _, _)
ScanProviders(providers, proxyHost, acc) ==
  IF providers = <<>> THEN [err |-> "", list |-> acc]
  ELSE
    LET providerName == Head(providers)[1]
        apiKey == Head(providers)[2]
        url == providerProxyUrl(providerName, proxyHost)
        known == providerSecretName(providerName)
    IN  IF apiKey = Undefined \/ apiKey = <<>> \/ apiKey = VAULT_PROXY_PLACEHOLDER_KEY
        THEN ScanProviders(Tail(providers), proxyHost, acc)
        ELSE IF url.err # "" THEN [err |-> url.err, list |-> acc]
        ELSE IF url.url = Undefined
        THEN ScanProviders(Tail(providers), proxyHost, acc)
        ELSE ScanProviders(Tail(providers), proxyHost,
               Append(acc, [providerName |-> providerName,
                            apiKey |-> apiKey,
                            secretName |-> IF known # Undefined THEN known
                                           ELSE FallbackSecretName(providerName)]))

\* the account-level tokens of one channel-token entry
RECURSIVE ScanAccounts(_, _, _)
ScanAccounts(entry, accounts, acc) ==
  IF accounts = <<>> THEN acc
  ELSE
    LET acctId == Head(accounts)[1]
        acctCfg == Head(accounts)[2]
        acctToken == IF IsObj(acctCfg) THEN Field(acctCfg, entry.tokenField) ELSE Absent
    IN  IF IsToken(acctToken)
        THEN ScanAccounts(entry, Tail(accounts),
               Append(acc, [secretName |-> entry.secretName \o <<"_">> \o toUpperCase(acctId),
                            token |-> Trim(acctToken.v),
                            configPath |-> S_channelsDot \o entry.channel \o <<".">>
                                           \o S_accounts \o <<".">> \o acctId
                                           \o <<".">> \o entry.tokenField]))
        ELSE ScanAccounts(entry, Tail(accounts), acc)

\* the loop over VAULT_CHANNEL_DEFAULTS: the channel tokens to migrate as
\* [secretName, token, configPath]
RECURSIVE ScanChannels(_, _, _)
ScanChannels(channels, entries, acc) ==
  IF entries = <<>> THEN acc
  ELSE
    LET entry == Head(entries)
        channelCfg == Field(channels, entry.channel)
        baseToken == IF IsObj(channelCfg) THEN Field(channelCfg, entry.tokenField)
                     ELSE Absent
        withBase ==
          IF IsToken(baseToken)
          THEN Append(acc, [secretName |-> entry.secretName,
                            token |-> Trim(baseToken.v),
                            configPath |-> S_channelsDot \o entry.channel \o <<".">>
                                           \o entry.tokenField])
          ELSE acc
        accounts == IF IsObj(channelCfg) THEN Field(channelCfg, S_accounts) ELSE Absent
    IN  IF ~IsObj(channelCfg) THEN ScanChannels(channels, Tail(entries), acc)
        ELSE IF IsObj(accounts)
        THEN ScanChannels(channels, Tail(entries), ScanAccounts(entry, accounts.v, withBase))
        ELSE ScanChannels(channels, Tail(entries), withBase)

channelTokensToMigrate(cfg) ==
  IF ~IsObj(cfg.channels) THEN <<>>
  ELSE ScanChannels(cfg.channels, VAULT_CHANNEL_DEFAULTS, <<>>)

\* s with the first occurrence of pat removed: s.replace(pat, "")
RECURSIVE RemoveFirst(_, _)
RemoveFirst(s, pat) ==
  IF Len(s) < Len(pat) THEN s
  ELSE IF SubSeq(s, 1, Len(pat)) = pat THEN SubSeq(s, Len(pat)+1, Len(s))
  ELSE <<Head(s)>> \o RemoveFirst(Tail(s), pat)

\* deleteNestedKey on the parts of the dot path
RECURSIVE DeleteParts(_, _)
DeleteParts(obj, parts) ==
  IF Len(parts) = 1
  THEN IF parts[1] # <<>> THEN Obj(MapDelete(obj.v, parts[1])) ELSE obj
  ELSE
    LET key == parts[1]
        next == Field(obj, key)
    IN  IF key = <<>> THEN obj
        ELSE IF ~IsObj(next) THEN obj
        ELSE Obj(MapSet(obj.v, key, DeleteParts(next, Tail(parts))))

deleteNestedKey(obj, dotPath) == DeleteParts(obj, Split(dotPath, "."))

\* the loop that strips the migrated channel tokens from a copy of channels
RECURSIVE StripChannels(_, _)
StripChannels(channels, list) ==
  IF list = <<>> THEN channels
  ELSE StripChannels(
         deleteNestedKey(channels, RemoveFirst(Head(list).configPath, S_channelsDot)),
         Tail(list))

\* a migrate that leaves the apiKey fields in the configuration
StripNoProviders(providers, list) == providers

\* the loop that strips the migrated apiKey fields from a copy of providers
RECURSIVE StripProviders(_, _)
StripProviders(providers, list) ==
  IF list = <<>> THEN providers
  ELSE StripProviders(
         IF MapHas(providers, Head(list).providerName)
         THEN MapSet(providers, Head(list).providerName, Undefined)
         ELSE providers,
         Tail(list))

\* the loops that add the migrated secrets to the decrypted SecretSet
RECURSIVE SetProviderSecrets(_, _)
SetProviderSecrets(secrets, list) ==
  IF list = <<>> THEN secrets
  ELSE SetProviderSecrets(MapSet(secrets, Head(list).secretName, Head(list).apiKey),
                          Tail(list))

RECURSIVE SetChannelSecrets(_, _)
SetChannelSecrets(secrets, list) ==
  IF list = <<>> THEN secrets
  ELSE SetChannelSecrets(MapSet(secrets, Head(list).secretName, Head(list).token),
                         Tail(list))

\* proxyMappings: the defaults, then the URL of every migrated provider
RECURSIVE MigratedProxies(_, _, _)
MigratedProxies(proxyMappings, list, proxyHost) ==
  IF list = <<>> THEN proxyMappings
  ELSE
    LET url == providerProxyUrl(Head(list).providerName, proxyHost).url
    IN  MigratedProxies(
          IF url # Undefined THEN MapSet(proxyMappings, Head(list).providerName, url)
          ELSE proxyMappings,
          Tail(list), proxyHost)


(***************************************************************************)
(* decryptVault / encryptVault.                                            *)
(***************************************************************************)
\* a decryptVault that answers a failed decryption with an empty SecretSet
decryptVaultLenient(file, secretKey) ==
  IF file.kind = "absent" THEN [err |-> "NotFound", secrets |-> EmptyMap]
  ELSE IF ~AgeDecrypts(file, secretKey) THEN [err |-> "", secrets |-> EmptyMap]
  ELSE [err |-> "", secrets |-> parseVaultSecrets(file.body)]

\* decryptVault(vaultPath, secretKey) on the file at vaultPath: [err, secrets];
\* err # "" is the error thrown, and then nothing is returned
decryptVault(file, secretKey) ==
  IF file.kind = "absent" THEN [err |-> "NotFound", secrets |-> EmptyMap]
  ELSE IF ~AgeDecrypts(file, secretKey)
  THEN [err |-> "DecryptionFailed", secrets |-> EmptyMap]
  ELSE [err |-> "", secrets |-> parseVaultSecrets(file.body)]

\* the ciphertext encryptVault(secrets, recipient, vaultPath) writes
VaultCiphertext(secrets, recipient, nonce) ==
  AgeEncrypt(serializeVaultSecrets(secrets), recipient, nonce)

\* the secrets an intact vault file holds (what its owner decrypts)
Stored(file) == IF file.kind = "age" THEN parseVaultSecrets(file.body) ELSE EmptyMap


(***************************************************************************)
(* The state of the CLI: the vault file, the temp files of encryptVault,   *)
(* the configuration file, and the position of each running invocation.    *)
(***************************************************************************)
VARIABLES
  vaultFile,   \* the file at the vault path
  tmpFile,     \* per invocation: its `${vaultPath}.${uuid}.tmp`
  orphans,     \* temp files left behind by killed invocations
  config,      \* the configuration file (the fields the vault commands touch)
  pc,          \* per invocation: the step it is at ("idle" = none running)
  loc,         \* per invocation: its local variables
  nextKey,     \* the next keypair generateKeypair() returns
  printed,     \* per keypair: how often its identity was logged
  ncmd,        \* number of invocations started
  last,        \* what the last finished invocation did
  cx           \* the pure-function harness (codec and decrypt laws)

vars == <<vaultFile, tmpFile, orphans, config, pc, loc, nextKey, printed, ncmd, last, cx>>

\* number of CLI invocations in one behaviour
MaxCmds == 3

\* strings used in configurations and on the command line
S_openai == <<"o","p","e","n","a","i">>
S_OpenAI == <<"O","p","e","n","A","I">>
S_anthropic == <<"a","n","t","h","r","o","p","i","c">>
S_groq == <<"g","r","o","q">>
S_ollama == <<"o","l","l","a","m","a">>
S_custom == <<"c","u","s","t","o","m">>
S_telegram == <<"t","e","l","e","g","r","a","m">>
S_botToken == <<"b","o","t","T","o","k","e","n">>
S_work == <<"w","o","r","k">>
S_vault == <<"v","a","u","l","t">>
S_evil == <<"e","v","i","l","/","#">>
S_OPENAI_API_KEY == <<"O","P","E","N","A","I","_","A","P","I","_","K","E","Y">>
S_MY_KEY == <<"M","Y","_","K","E","Y">>
S_my_key == <<"m","y","-","k","e","y">>

\* the configuration file: vault.enabled, vault.publicKey, vault.proxies,
\* models.providers (provider name -> apiKey, Undefined when it has none),
\* channels
Config(enabled, publicKey, proxies, providers, channels) ==
  [enabled |-> enabled, publicKey |-> publicKey, proxies |-> proxies,
   providers |-> providers, channels |-> channels]

\* no vault section, no providers, no channels
CfgEmpty == Config(FALSE, Undefined, EmptyMap, EmptyMap, Absent)

\* providers: one to migrate, one already on the sentinel, one without
\* apiKey, one outside the registry; a channel with a base and an account token
CfgRich ==
  Config(FALSE, Undefined, EmptyMap,
         << <<S_openai, <<"k","o">>>>,
            <<S_anthropic, VAULT_PROXY_PLACEHOLDER_KEY>>,
            <<S_groq, Undefined>>,
            <<S_ollama, <<"k","l">>>> >>,
         Obj(<< <<S_telegram,
                  Obj(<< <<S_botToken, Str(<<"t","g">>)>>,
                         <<S_accounts,
                           Obj(<< <<S_work, Obj(<< <<S_botToken, Str(<<"t","w">>)>> >>)>> >>)>> >>)>> >>))

\* two provider entries, and two telegram accounts, whose names differ in
\* case only
S_Work == <<"W","o","r","k">>
CfgCollide ==
  Config(FALSE, Undefined, EmptyMap,
         << <<S_openai, <<"k","1">>>>, <<S_OpenAI, <<"k","2">>>> >>,
         Obj(<< <<S_telegram,
                  Obj(<< <<S_accounts,
                           Obj(<< <<S_work, Obj(<< <<S_botToken, Str(<<"t","w">>)>> >>)>>,
                                  <<S_Work, Obj(<< <<S_botToken, Str(<<"t","x">>)>> >>)>>
                               >>)>> >>)>> >>))

InitialConfigs == {CfgRich, CfgCollide}

\* the invocations of the sequential CLI: one at a time
Procs == {1}

NoPre == [vaultFile |-> NoFile, config |-> CfgEmpty, nextKey |-> 1]
NoPrev == [cmd |-> "", err |-> "", dryRun |-> FALSE]
NoPP == [port |-> Undefined, provider |-> Undefined]

NoLoc ==
  [cmd |-> "", id |-> 0, name |-> <<>>, value |-> <<>>, force |-> FALSE,
   dryRun |-> FALSE, pp |-> NoPP, proxyHost |-> Undefined, noProxy |-> FALSE,
   publicKey |-> Undefined,
   newKey |-> 0, cipher |-> NoFile, cont |-> "", next |-> CfgEmpty,
   provs |-> <<>>, chans |-> <<>>, pre |-> NoPre, prev |-> NoPrev, shown |-> <<>>,
   key |-> Undefined]

\* what an invocation leaves in `last` when it ends with error err ("" = ok)
Summary(l, err) ==
  [cmd |-> l.cmd, id |-> l.id, err |-> err, name |-> l.name, value |-> l.value,
   force |-> l.force, dryRun |-> l.dryRun, pp |-> l.pp, proxyHost |-> l.proxyHost,
   noProxy |-> l.noProxy, newKey |-> l.newKey,
   provs |-> l.provs, chans |-> l.chans, pre |-> l.pre, prev |-> l.prev,
   shown |-> l.shown, key |-> l.key]

NoLast == Summary(NoLoc, "")

\* the locals of a freshly started invocation
NewLoc(cmd) ==
  [NoLoc EXCEPT !.cmd = cmd, !.id = ncmd + 1,
                !.pre = [vaultFile |-> vaultFile, config |-> config, nextKey |-> nextKey],
                !.prev = [cmd |-> last.cmd, err |-> last.err, dryRun |-> last.dryRun]]

InitCLI ==
  /\ vaultFile = NoFile
  /\ tmpFile = [p \in Procs |-> NoFile]
  /\ orphans = {}
  /\ pc = [p \in Procs |-> "idle"]
  /\ loc = [p \in Procs |-> NoLoc]
  /\ nextKey = 1
  /\ printed = [k \in KeyIds |-> 0]
  /\ ncmd = 0
  /\ last = NoLast

\* control transfer of invocation p; `last` describes the invocation that
\* ended most recently and is blank while one is running
Goto(p, label, l) ==
  /\ pc' = [pc EXCEPT ![p] = label]
  /\ loc' = [loc EXCEPT ![p] = l]
  /\ last' = NoLast

\* invocation p ends (returns, or throws err)
Finish(p, l, err) ==
  /\ pc' = [pc EXCEPT ![p] = "idle"]
  /\ loc' = [loc EXCEPT ![p] = NoLoc]
  /\ last' = Summary(l, err)

CanStart(p) == pc[p] = "idle" /\ ncmd < MaxCmds


(***************************************************************************)
(* encryptVault: the write to a temp file, then the rename.                *)
(***************************************************************************)
\* the values of --proxy-host tried: the default, and one for each way of
\* failing the validation (a character outside the class, no character, a
\* first character that is not alphanumeric)
ProxyHosts == {S_vault, S_evil, <<>>, <<"-", "v">>}

\* encryptVault is entered with the ciphertext to write and the step to
\* continue at when it returns
CallEncrypt(p, l, secrets, recipient, stage, cont) ==
  Goto(p, "enc_write",
       [l EXCEPT !.cipher = VaultCiphertext(secrets, recipient, <<l.id, stage>>),
                 !.cont = cont])

\* a writer without the temp file: it writes at the vault path itself
EncWriteInPlace(p) ==
  /\ pc[p] = "enc_write"
  /\ vaultFile' = Truncated(loc[p].cipher)
  /\ Goto(p, "enc_flush", loc[p])
  /\ UNCHANGED <<tmpFile, orphans, config, nextKey, printed, ncmd, cx>>

\* writeFile(tmp, ...) has created the temp file and written part of it
EncWrite(p) ==
  /\ pc[p] = "enc_write"
  /\ tmpFile' = [tmpFile EXCEPT ![p] = Truncated(loc[p].cipher)]
  /\ Goto(p, "enc_flush", loc[p])
  /\ UNCHANGED <<vaultFile, orphans, config, nextKey, printed, ncmd, cx>>

\* writeFile(tmp, ...) completes
EncFlush(p) ==
  /\ pc[p] = "enc_flush"
  /\ tmpFile' = [tmpFile EXCEPT ![p] = loc[p].cipher]
  /\ Goto(p, "enc_rename", loc[p])
  /\ UNCHANGED <<vaultFile, orphans, config, nextKey, printed, ncmd, cx>>

\* a rename that keeps the secrets of the file it replaces
RenamedMerged(tmp, old) ==
  IF tmp.kind = "age" /\ old.kind = "age"
    THEN [tmp EXCEPT !.body = serializeVaultSecrets(Spread(Stored(old), Stored(tmp)))]
    ELSE tmp

\* the file the vault path names after rename(tmp, vaultPath)
Renamed(tmp, old) == tmp

\* rename(tmp, vaultPath) succeeds: one atomic replacement
EncRename(p) ==
  /\ pc[p] = "enc_rename"
  /\ vaultFile' = Renamed(tmpFile[p], vaultFile)
  /\ tmpFile' = [tmpFile EXCEPT ![p] = NoFile]
  /\ Goto(p, loc[p].cont, [loc[p] EXCEPT !.cipher = NoFile, !.cont = ""])
  /\ UNCHANGED <<orphans, config, nextKey, printed, ncmd, cx>>

\* rename(tmp, vaultPath) throws: the temp file is unlinked, the error rethrown
EncRenameFails(p) ==
  /\ pc[p] = "enc_rename"
  /\ tmpFile' = [tmpFile EXCEPT ![p] = NoFile]
  /\ Finish(p, loc[p], "IOError")
  /\ UNCHANGED <<vaultFile, orphans, config, nextKey, printed, ncmd, cx>>

\* the process is killed between two steps; its temp file stays behind
\* (a kill before the first write of the invocation leaves no trace)
Crash(p) ==
  /\ pc[p] # "idle"
  /\ \/ tmpFile[p] # NoFile
     \/ vaultFile # loc[p].pre.vaultFile
     \/ config # loc[p].pre.config
  /\ orphans' = IF tmpFile[p] = NoFile THEN orphans ELSE orphans \cup {tmpFile[p]}
  /\ tmpFile' = [tmpFile EXCEPT ![p] = NoFile]
  /\ Finish(p, loc[p], "crash")
  /\ UNCHANGED <<vaultFile, config, nextKey, printed, ncmd, cx>>

\* writeConfigFile(next); the commands that generated a keypair go on to log it
WriteConfig(p) ==
  /\ pc[p] = "cfg_write"
  /\ config' = loc[p].next
  /\ IF loc[p].newKey # 0
     THEN Goto(p, "log_key", loc[p])
     ELSE Finish(p, loc[p], "")
  /\ UNCHANGED <<vaultFile, tmpFile, orphans, nextKey, printed, ncmd, cx>>

\* defaultRuntime.log(`  ${keypair.identity}`): the number of times identity
\* k has been shown after one more log
Logged(shown, k) == [shown EXCEPT ![k] = @ + 1]

\* the closing log lines of init and migrate
LogKey(p) ==
  /\ pc[p] = "log_key"
  /\ printed' = Logged(printed, loc[p].newKey)
  /\ Finish(p, loc[p], "")
  /\ UNCHANGED <<vaultFile, tmpFile, orphans, config, nextKey, ncmd, cx>>

(***************************************************************************)
(* vault init                                                              *)
(***************************************************************************)
\* an init that stores the identity where the recipient belongs
InitNextConfigIdentity(snapshot, keypair, defaultProxies) ==
  [snapshot EXCEPT !.enabled = TRUE,
                   !.publicKey = keypair.identity,
                   !.proxies = Spread(defaultProxies, snapshot.proxies)]

\* an init whose defaults replace the mappings already there
InitNextConfigDefaultsWin(snapshot, keypair, defaultProxies) ==
  [snapshot EXCEPT !.enabled = TRUE,
                   !.publicKey = keypair.recipient,
                   !.proxies = Spread(snapshot.proxies, defaultProxies)]

\* the `next` configuration init writes
InitNextConfigKeepKey(snapshot, keypair, defaultProxies) ==
  [snapshot EXCEPT !.enabled = TRUE,
                   !.proxies = Spread(defaultProxies, snapshot.proxies)]

InitNextConfig(snapshot, keypair, defaultProxies) ==
  [snapshot EXCEPT !.enabled = TRUE,
                   !.publicKey = keypair.recipient,
                   !.proxies = Spread(defaultProxies, snapshot.proxies)]

\* an init that overwrites without being asked to
InitErrorNever(exists, force) == ""

\* if (fs.existsSync(vaultPath) && !opts.force) throw: the error, "" if none
InitError(exists, force) == IF exists /\ ~force THEN "AlreadyExists" ELSE ""

\* loadConfig, the existsSync check, generateKeypair, and the entry into
\* encryptVault(new Map(), keypair.recipient, vaultPath); --force is tried
\* where it makes a difference
InitStart(p) ==
  /\ CanStart(p)
  /\ nextKey <= MaxKeys
  /\ \E force \in (IF vaultFile.kind = "absent" THEN {FALSE} ELSE BOOLEAN) :
       LET l == [NewLoc("init") EXCEPT !.force = force]
       IN  IF InitError(vaultFile.kind # "absent", force) # ""
           THEN /\ Finish(p, l, InitError(vaultFile.kind # "absent", force))
                /\ UNCHANGED nextKey
           ELSE /\ nextKey' = nextKey + 1
                /\ CallEncrypt(p, [l EXCEPT !.newKey = nextKey], EmptyMap,
                               generateKeypair(nextKey).recipient, 1, "init_cfg")
  /\ ncmd' = ncmd + 1
  /\ UNCHANGED <<vaultFile, tmpFile, orphans, config, printed, cx>>

\* buildDefaultProxyMap(opts.proxyHost), readConfigFileSnapshot, `next`
InitConfig(p) ==
  /\ pc[p] = "init_cfg"
  /\ \E proxyHost \in ProxyHosts :
       LET defaultProxies == buildDefaultProxyMap(proxyHost)
           l == [loc[p] EXCEPT !.proxyHost = proxyHost]
       IN  IF defaultProxies.err # ""
           THEN Finish(p, l, defaultProxies.err)
           ELSE Goto(p, "cfg_write",
                     [l EXCEPT !.next = InitNextConfig(config, generateKeypair(l.newKey),
                                                       defaultProxies.proxies)])
  /\ UNCHANGED <<vaultFile, tmpFile, orphans, config, nextKey, printed, ncmd, cx>>


(***************************************************************************)
(* vault add                                                               *)
(***************************************************************************)
\* Number(opts.port) on a string of decimal digits; -1 stands for NaN
RECURSIVE ParsePort(_, _)
ParsePort(s, acc) ==
  IF s = <<>> THEN acc
  ELSE IF ~IsDigit(Head(s)) THEN -1
  ELSE ParsePort(Tail(s),
         10 * acc + (CHOOSE d \in 0..9 : DigitChars[d + 1] = Head(s)))

\* resolveSecretValue(value, useStdin) with the bytes waiting on stdin
resolveSecretValue(value, useStdin, stdin) ==
  IF value # Undefined THEN [err |-> "", value |-> value]
  ELSE IF useStdin
  THEN IF Trim(stdin) = <<>> THEN [err |-> "EmptyValue", value |-> <<>>]
       ELSE [err |-> "", value |-> Trim(stdin)]
  ELSE [err |-> "NoValue", value |-> <<>>]

\* resolveAgeSecretKey with AGE_SECRET_KEY = envKey and no terminal
resolveAgeSecretKey(envKey) ==
  IF envKey = Undefined THEN [err |-> "KeyUnavailable", key |-> Undefined]
  ELSE [err |-> "", key |-> envKey]

\* the keys an operator can supply: none, an identity some command has
\* shown, or an identity of a keypair that never belonged to this vault
ForeignKey == <<"AGE-SECRET-KEY-1", 0>>
OperatorKeys == {Undefined, ForeignKey} \cup {Identity(k) : k \in {j \in KeyIds : printed[j] > 0}}

\* the command lines of `vault add` tried: name, [value], --stdin with the
\* bytes on stdin, --port, --provider
AddLine(name, value, useStdin, stdin, port, provider) ==
  [name |-> name, value |-> value, useStdin |-> useStdin, stdin |-> stdin,
   pp |-> [port |-> port, provider |-> provider]]

AddLines ==
  { AddLine(S_OPENAI_API_KEY, <<"s">>, FALSE, <<>>, Undefined, Undefined),
    AddLine(S_MY_KEY, <<DQ, " ", "s", DQ>>, FALSE, <<>>, Undefined, Undefined),
    AddLine(S_MY_KEY, Undefined, TRUE, <<" ", "v", NL>>, <<"9","0">>, S_openai),
    AddLine(S_my_key, <<"s">>, FALSE, <<>>, Undefined, Undefined),
    AddLine(S_MY_KEY, Undefined, TRUE, <<NL>>, Undefined, Undefined),
    AddLine(S_MY_KEY, <<"s">>, FALSE, <<>>, <<"0">>, S_custom),
    AddLine(S_MY_KEY, Undefined, TRUE, <<" ", "v", NL>>, <<"9","0">>, S_custom) }

\* the checks of add before it touches anything: the error thrown, "" if none
AddArgsError(name, pp, resolved, publicKey) ==
  IF ~ValidSecretName(name) THEN "InvalidName"
  ELSE IF (pp.port # Undefined) # (pp.provider # Undefined) THEN "PortProviderMismatch"
  ELSE IF pp.port # Undefined /\ ~(ParsePort(pp.port, 0) \in 1..65535) THEN "InvalidPort"
  ELSE IF pp.provider # Undefined /\ ~ValidProviderName(pp.provider) THEN "InvalidProviderName"
  ELSE IF resolved.err # "" THEN resolved.err
  ELSE IF publicKey = Undefined THEN "MissingPublicKey"
  ELSE ""

\* validation, resolveSecretValue, loadConfig, the publicKey check
AddStart(p) ==
  /\ CanStart(p)
  /\ \E line \in AddLines :
       LET resolved == resolveSecretValue(line.value, line.useStdin, line.stdin)
           err == AddArgsError(line.name, line.pp, resolved, config.publicKey)
           l == [NewLoc("add") EXCEPT !.name = line.name, !.value = resolved.value,
                                      !.pp = line.pp, !.publicKey = config.publicKey]
       IN  IF err # "" THEN Finish(p, l, err) ELSE Goto(p, "add_decrypt", l)
  /\ ncmd' = ncmd + 1
  /\ UNCHANGED <<vaultFile, tmpFile, orphans, config, nextKey, printed, cx>>

\* existsSync, resolveAgeSecretKey, decryptVault, secrets.set, and the entry
\* into encryptVault(secrets, publicKey, vaultPath)
AddDecrypt(p) ==
  /\ pc[p] = "add_decrypt"
  /\ IF vaultFile.kind # "absent"
     THEN \E envKey \in OperatorKeys :
            LET k == resolveAgeSecretKey(envKey)
                d == decryptVault(vaultFile, k.key)
                l == [loc[p] EXCEPT !.key = envKey]
            IN  IF k.err # "" THEN Finish(p, l, k.err)
                ELSE IF d.err # "" THEN Finish(p, l, d.err)
                ELSE CallEncrypt(p, l, MapSet(d.secrets, l.name, l.value),
                                 l.publicKey, 1, "add_proxy")
     ELSE CallEncrypt(p, loc[p], MapSet(EmptyMap, loc[p].name, loc[p].value),
                      loc[p].publicKey, 1, "add_proxy")
  /\ UNCHANGED <<vaultFile, tmpFile, orphans, config, nextKey, printed, ncmd, cx>>

\* { ...snapshot.config, vault: { ...vault, proxies: proxies } }
WithProxies(snapshot, proxies) == [snapshot EXCEPT !.proxies = proxies]

\* an add that takes every provider as unmapped
HasProxyNever(existingProxies, providerName) == FALSE

\* existingProxies[providerName] is truthy
HasProxy(existingProxies, providerName) ==
  MapHas(existingProxies, providerName) /\ MapGet(existingProxies, providerName) # <<>>

\* an explicit mapping that yields to an existing one
ExplicitProxiesKeep(existingProxies, providerName, proxyUrl) ==
  IF MapHas(existingProxies, providerName) THEN existingProxies
  ELSE MapSet(existingProxies, providerName, proxyUrl)

\* { ...existingProxies, [providerName]: proxyUrl }
ExplicitProxies(existingProxies, providerName, proxyUrl) ==
  MapSet(existingProxies, providerName, proxyUrl)

\* the pairs (--no-proxy, --proxy-host) tried: --no-proxy goes with the
\* default host
AddProxyOpts == {<<FALSE, h>> : h \in ProxyHosts} \cup {<<TRUE, S_vault>>}

\* the proxy auto-configuration after the vault was written
AddProxy(p) ==
  /\ pc[p] = "add_proxy"
  /\ \E opt \in AddProxyOpts :
       LET noProxy == opt[1]
           proxyHost == opt[2]
           l == [loc[p] EXCEPT !.proxyHost = proxyHost, !.noProxy = noProxy]
           matchingProvider == findProviderBySecretName(l.name)
           proxyUrl == providerProxyUrl(matchingProvider, proxyHost)
       IN  IF noProxy THEN Finish(p, l, "")
           ELSE IF l.pp.port # Undefined
           THEN IF ~ValidHostname(proxyHost) THEN Finish(p, l, "InvalidHostname")
                ELSE Goto(p, "cfg_write",
                       [l EXCEPT !.next =
                          WithProxies(config,
                            ExplicitProxies(config.proxies, l.pp.provider,
                                   ProxyUrl(proxyHost, ParsePort(l.pp.port, 0))))])
           ELSE IF matchingProvider = Undefined THEN Finish(p, l, "")
           ELSE IF proxyUrl.err # "" THEN Finish(p, l, proxyUrl.err)
           ELSE IF HasProxy(config.proxies, matchingProvider)
           THEN Finish(p, l, "")
           ELSE Goto(p, "cfg_write",
                  [l EXCEPT !.next =
                     WithProxies(config,
                       MapSet(config.proxies, matchingProvider, proxyUrl.url))])
  /\ UNCHANGED <<vaultFile, tmpFile, orphans, config, nextKey, printed, ncmd, cx>>


(***************************************************************************)
(* vault remove                                                            *)
(***************************************************************************)
RemoveNames == {S_OPENAI_API_KEY, S_MY_KEY, S_my_key}

\* validateSecretName, loadConfig, the publicKey and existsSync checks
RemoveStart(p) ==
  /\ CanStart(p)
  /\ \E name \in RemoveNames :
       LET l == [NewLoc("remove") EXCEPT !.name = name, !.publicKey = config.publicKey]
       IN  IF ~ValidSecretName(name) THEN Finish(p, l, "InvalidName")
           ELSE IF config.publicKey = Undefined THEN Finish(p, l, "MissingPublicKey")
           ELSE IF vaultFile.kind = "absent" THEN Finish(p, l, "NotFound")
           ELSE Goto(p, "rm_decrypt", l)
  /\ ncmd' = ncmd + 1
  /\ UNCHANGED <<vaultFile, tmpFile, orphans, config, nextKey, printed, cx>>

\* a remove without the secrets.has check
RemoveErrorNever(secrets, name) == ""

\* if (!secrets.has(name)) throw: the error, "" when the name is there
RemoveError(secrets, name) ==
  IF ~MapHas(secrets, name) THEN "SecretNotFound" ELSE ""

\* resolveAgeSecretKey, decryptVault, the secrets.has check, secrets.delete,
\* and the entry into encryptVault
RemoveDecrypt(p) ==
  /\ pc[p] = "rm_decrypt"
  /\ \E envKey \in OperatorKeys :
       LET k == resolveAgeSecretKey(envKey)
           d == decryptVault(vaultFile, k.key)
           l == [loc[p] EXCEPT !.key = envKey]
       IN  IF k.err # "" THEN Finish(p, l, k.err)
           ELSE IF d.err # "" THEN Finish(p, l, d.err)
           ELSE IF RemoveError(d.secrets, l.name) # ""
           THEN Finish(p, l, RemoveError(d.secrets, l.name))
           ELSE CallEncrypt(p, l, MapDelete(d.secrets, l.name),
                            l.publicKey, 1, "rm_proxy")
  /\ UNCHANGED <<vaultFile, tmpFile, orphans, config, nextKey, printed, ncmd, cx>>

\* the removal of the matching proxy entry
RemoveProxy(p) ==
  /\ pc[p] = "rm_proxy"
  /\ LET matchingProvider == findProviderBySecretName(loc[p].name)
     IN  IF matchingProvider = Undefined THEN Finish(p, loc[p], "")
         ELSE IF MapHas(config.proxies, matchingProvider)
                 /\ MapGet(config.proxies, matchingProvider) # <<>>
         THEN Goto(p, "cfg_write",
                [loc[p] EXCEPT !.next =
                   WithProxies(config, MapDelete(config.proxies, matchingProvider))])
         ELSE Finish(p, loc[p], "")
  /\ UNCHANGED <<vaultFile, tmpFile, orphans, config, nextKey, printed, ncmd, cx>>

(***************************************************************************)
(* vault list, vault status                                                *)
(***************************************************************************)
Stars(n) == [i \in 1..n |-> "*"]

\* a mask with a fixed run of stars between the visible ends
maskValueFixed(value) ==
  IF Len(value) <= 8 THEN Stars(Len(value))
  ELSE SubSeq(value, 1, 4) \o Stars(4)
       \o SubSeq(value, Len(value) - 3, Len(value))

\* maskValue: all stars up to 8 characters, else the first 4 and the last 4
\* around stars
maskValue(value) ==
  IF Len(value) <= 8 THEN Stars(Len(value))
  ELSE SubSeq(value, 1, 4) \o Stars(Len(value) - 8)
       \o SubSeq(value, Len(value) - 3, Len(value))

S_hidden == <<"(","h","i","d","d","e","n",")">>

\* a list whose table shows the plaintext under --reveal
ListOutputRaw(secrets, reveal, json) ==
  [i \in DOMAIN secrets |->
     <<secrets[i][1],
       IF json THEN (IF reveal THEN secrets[i][2] ELSE maskValue(secrets[i][2]))
       ELSE (IF reveal THEN secrets[i][2] ELSE S_hidden)>>]

\* what list shows for each secret, in the order of the map
ListOutput(secrets, reveal, json) ==
  [i \in DOMAIN secrets |->
     <<secrets[i][1],
       IF json THEN (IF reveal THEN secrets[i][2] ELSE maskValue(secrets[i][2]))
       ELSE (IF reveal THEN maskValue(secrets[i][2]) ELSE S_hidden)>>]

\* the whole of `vault list`: it reads, decrypts and prints
List(p) ==
  /\ CanStart(p)
  /\ \E envKey \in OperatorKeys, reveal \in BOOLEAN, json \in BOOLEAN :
       LET l == [NewLoc("list") EXCEPT !.key = envKey]
           k == resolveAgeSecretKey(envKey)
           d == decryptVault(vaultFile, k.key)
       IN  IF vaultFile.kind = "absent" THEN Finish(p, l, "NotFound")
           ELSE IF k.err # "" THEN Finish(p, l, k.err)
           ELSE IF d.err # "" THEN Finish(p, l, d.err)
           ELSE Finish(p, [l EXCEPT !.shown = ListOutput(d.secrets, reveal, json)], "")
  /\ ncmd' = ncmd + 1
  /\ UNCHANGED <<vaultFile, tmpFile, orphans, config, nextKey, printed, cx>>

S_stored == <<"s","t","o","r","e","d">>
S_not_configured == <<"n","o","t"," ","c","o","n","f","i","g","u","r","e","d">>

\* the channel-token rows of status: stored or not configured
StatusOutput(known, vaultSecrets) ==
  [i \in DOMAIN VAULT_CHANNEL_DEFAULTS |->
     <<VAULT_CHANNEL_DEFAULTS[i].secretName,
       IF known /\ MapHas(vaultSecrets, VAULT_CHANNEL_DEFAULTS[i].secretName)
       THEN S_stored ELSE S_not_configured>>]

\* the whole of `vault status`: a failed decryption is swallowed
Status(p) ==
  /\ CanStart(p)
  /\ \E envKey \in OperatorKeys :
       LET l == [NewLoc("status") EXCEPT !.key = envKey]
           k == resolveAgeSecretKey(envKey)
           d == decryptVault(vaultFile, k.key)
           known == /\ vaultFile.kind # "absent"
                    /\ config.publicKey # Undefined
                    /\ k.err = ""
                    /\ d.err = ""
       IN  Finish(p, [l EXCEPT !.shown = StatusOutput(known, d.secrets)], "")
  /\ ncmd' = ncmd + 1
  /\ UNCHANGED <<vaultFile, tmpFile, orphans, config, nextKey, printed, cx>>


(***************************************************************************)
(* vault migrate                                                           *)
(***************************************************************************)
\* a migration whose mappings yield to the ones already configured
MigrateNextConfigKeep(snapshot, publicKey, toMigrate, chans, proxyMappings) ==
  [enabled |-> TRUE,
   publicKey |-> publicKey,
   proxies |-> Spread(proxyMappings, snapshot.proxies),
   providers |-> StripProviders(snapshot.providers, toMigrate),
   channels |-> IF IsObj(snapshot.channels)
                THEN StripChannels(snapshot.channels, chans)
                ELSE snapshot.channels]

\* the `next` configuration of a migration that moved something
MigrateNextConfig(snapshot, publicKey, toMigrate, chans, proxyMappings) ==
  [enabled |-> TRUE,
   publicKey |-> publicKey,
   proxies |-> Spread(snapshot.proxies, proxyMappings),
   providers |-> StripProviders(snapshot.providers, toMigrate),
   channels |-> IF IsObj(snapshot.channels)
                THEN StripChannels(snapshot.channels, chans)
                ELSE snapshot.channels]

\* a nothing-eligible migrate whose defaults replace the mappings there
DefaultsNextConfigWin(snapshot, defaultProxies) ==
  WithProxies(snapshot, Spread(snapshot.proxies, defaultProxies))

\* the `next` configuration when nothing is eligible
DefaultsNextConfig(snapshot, defaultProxies) ==
  WithProxies(snapshot, Spread(defaultProxies, snapshot.proxies))

\* a migrate that goes on after the plan of a dry run
DryRunIgnored(dryRun) == FALSE

\* if (opts.dryRun) { ...; return; }
DryRunReturns(dryRun) == dryRun

\* readConfigFileSnapshot, the two scans, buildDefaultProxyMap, the
\* nothing-to-migrate and dry-run returns, and the keypair of a first run
MigrateStart(p) ==
  /\ CanStart(p)
  /\ config.publicKey # Undefined \/ nextKey <= MaxKeys
  /\ \E dryRun \in BOOLEAN, proxyHost \in ProxyHosts :
       LET scan == ScanProviders(config.providers, proxyHost, <<>>)
           chans == channelTokensToMigrate(config)
           defaultProxies == buildDefaultProxyMap(proxyHost)
           fresh == config.publicKey = Undefined \/ config.publicKey = <<>>
           publicKey == IF fresh THEN generateKeypair(nextKey).recipient
                        ELSE config.publicKey
           l0 == [NewLoc("migrate") EXCEPT !.dryRun = dryRun, !.proxyHost = proxyHost]
           l == [l0 EXCEPT !.provs = scan.list, !.chans = chans,
                           !.publicKey = publicKey,
                           !.next = MigrateNextConfig(config, publicKey, scan.list, chans,
                                      MigratedProxies(defaultProxies.proxies, scan.list,
                                                      proxyHost))]
       IN  IF scan.err # "" THEN Finish(p, l0, scan.err) /\ UNCHANGED nextKey
           ELSE IF defaultProxies.err # ""
           THEN Finish(p, l0, defaultProxies.err) /\ UNCHANGED nextKey
           ELSE IF Len(scan.list) + Len(chans) = 0
           THEN /\ UNCHANGED nextKey
                /\ IF DryRunReturns(dryRun) THEN Finish(p, l0, "")
                   ELSE Goto(p, "cfg_write",
                          [l0 EXCEPT !.next = DefaultsNextConfig(config,
                                                defaultProxies.proxies)])
           ELSE IF DryRunReturns(dryRun) THEN Finish(p, l, "") /\ UNCHANGED nextKey
           ELSE IF fresh
           THEN /\ nextKey' = nextKey + 1
                /\ CallEncrypt(p, [l EXCEPT !.newKey = nextKey], EmptyMap, publicKey,
                               1, "mig_decrypt")
           ELSE Goto(p, "mig_decrypt", l) /\ UNCHANGED nextKey
  /\ ncmd' = ncmd + 1
  /\ UNCHANGED <<vaultFile, tmpFile, orphans, config, printed, cx>>

\* the secrets migrate writes: the decrypted ones with the migrated ones set
MigratedSecrets(secrets, toMigrate, chans) ==
  SetChannelSecrets(SetProviderSecrets(secrets, toMigrate), chans)

\* existsSync, decryptVault unless the vault was just created, the two loops
\* over the secrets to move, and the entry into encryptVault
MigrateDecrypt(p) ==
  /\ pc[p] = "mig_decrypt"
  /\ IF vaultFile.kind # "absent" /\ loc[p].newKey = 0
     THEN \E envKey \in OperatorKeys :
            LET k == resolveAgeSecretKey(envKey)
                d == decryptVault(vaultFile, k.key)
                l == [loc[p] EXCEPT !.key = envKey]
            IN  IF k.err # "" THEN Finish(p, l, k.err)
                ELSE IF d.err # "" THEN Finish(p, l, d.err)
                ELSE CallEncrypt(p, l, MigratedSecrets(d.secrets, l.provs, l.chans),
                                 l.publicKey, 2, "cfg_write")
     ELSE CallEncrypt(p, loc[p], MigratedSecrets(EmptyMap, loc[p].provs, loc[p].chans),
                      loc[p].publicKey, 2, "cfg_write")
  /\ UNCHANGED <<vaultFile, tmpFile, orphans, config, nextKey, printed, ncmd, cx>>

(***************************************************************************)
(* The sequential CLI: one invocation at a time, each may be killed.       *)
(***************************************************************************)
Init ==
  /\ InitCLI
  /\ config \in InitialConfigs
  /\ cx = <<>>

Next ==
  \E p \in Procs :
    \/ InitStart(p)
    \/ InitConfig(p)
    \/ AddStart(p)
    \/ AddDecrypt(p)
    \/ AddProxy(p)
    \/ RemoveStart(p)
    \/ RemoveDecrypt(p)
    \/ RemoveProxy(p)
    \/ List(p)
    \/ Status(p)
    \/ MigrateStart(p)
    \/ MigrateDecrypt(p)
    \/ EncWrite(p)
    \/ EncFlush(p)
    \/ EncRename(p)
    \/ EncRenameFails(p)
    \/ WriteConfig(p)
    \/ LogKey(p)
    \/ Crash(p)

Spec == Init /\ [][Next]_vars


(***************************************************************************)
(* The laws of the codec and of encryptVault/decryptVault, on SecretSets   *)
(* drawn from a small alphabet: the functions are applied one after the    *)
(* other to the value held in cx.                                          *)
(***************************************************************************)
\* the characters of the values: a plain one, a quote, a space, a newline
ValueChars == {"s", DQ, " ", NL}
Values == StringsUpTo(ValueChars, MaxValLen)

\* the SecretSets tried: none, one or two secrets under valid names
SecretSets ==
  {EmptyMap}
    \cup {<< <<<<"A">>, v>> >> : v \in Values}
    \cup {<< <<<<"A">>, v>>, <<<<"B","1">>, w>> >> : v \in Values, w \in Values}

NoResult == [err |-> "", secrets |-> EmptyMap]

InitCodec ==
  /\ InitCLI
  /\ config = CfgEmpty
  /\ \E secrets \in SecretSets, k \in KeyIds :
       cx = [stage |-> "input", secrets |-> secrets, key |-> k, text |-> <<>>,
             parsed |-> EmptyMap, file |-> NoFile, damaged |-> FALSE,
             used |-> Undefined, result |-> NoResult]

\* serializeVaultSecrets(s)
CodecSerialize ==
  /\ cx.stage = "input"
  /\ cx' = [cx EXCEPT !.stage = "serialized", !.text = serializeVaultSecrets(cx.secrets)]
  /\ UNCHANGED <<vaultFile, tmpFile, orphans, config, pc, loc, nextKey, printed, ncmd, last>>

\* parseVaultSecrets of the serialized text
CodecParse ==
  /\ cx.stage = "serialized"
  /\ cx' = [cx EXCEPT !.stage = "parsed", !.parsed = parseVaultSecrets(cx.text)]
  /\ UNCHANGED <<vaultFile, tmpFile, orphans, config, pc, loc, nextKey, printed, ncmd, last>>

\* encryptVault(s, k.recipient, path): the file at path afterwards
CodecEncrypt ==
  /\ cx.stage = "input"
  /\ cx' = [cx EXCEPT !.stage = "encrypted",
                      !.file = VaultCiphertext(cx.secrets, generateKeypair(cx.key).recipient,
                                               <<0, 0>>)]
  /\ UNCHANGED <<vaultFile, tmpFile, orphans, config, pc, loc, nextKey, printed, ncmd, last>>

\* the file is corrupted on disk: cut short, or overwritten with other bytes
CodecDamage ==
  /\ cx.stage = "encrypted"
  /\ ~cx.damaged
  /\ \E f \in {Garbage, Truncated(cx.file)} :
       cx' = [cx EXCEPT !.file = f, !.damaged = TRUE]
  /\ UNCHANGED <<vaultFile, tmpFile, orphans, config, pc, loc, nextKey, printed, ncmd, last>>

\* decryptVault(path, identity) with the right or with another identity
CodecDecrypt ==
  /\ cx.stage = "encrypted"
  /\ \E identity \in Identities \cup {ForeignKey} :
       cx' = [cx EXCEPT !.stage = "decrypted", !.used = identity,
                        !.result = decryptVault(cx.file, identity)]
  /\ UNCHANGED <<vaultFile, tmpFile, orphans, config, pc, loc, nextKey, printed, ncmd, last>>

NextCodec ==
  \/ CodecSerialize
  \/ CodecParse
  \/ CodecEncrypt
  \/ CodecDamage
  \/ CodecDecrypt

SpecCodec == InitCodec /\ [][NextCodec]_vars


(***************************************************************************)
(* maskValue and the output of `vault list`, on values long enough to have *)
(* visible ends: the functions are applied to the value held in cx.        *)
(***************************************************************************)
MaxMaskLen == 10
MaskChars == {"a", "b"}
MaskValues == StringsUpTo(MaskChars, MaxMaskLen)

\* the decrypted vaults listed: empty, the value alone, the value and another
MaskSets(v) ==
  { EmptyMap,
    << <<S_MY_KEY, v>> >>,
    << <<S_OPENAI_API_KEY, <<"a","b","a","b","a","b","a","b","a">>>>, <<S_MY_KEY, v>> >> }

InitMask ==
  /\ InitCLI
  /\ config = CfgEmpty
  /\ \E v \in MaskValues :
       cx = [stage |-> "input", value |-> v, masked |-> <<>>, secrets |-> EmptyMap,
             reveal |-> FALSE, json |-> FALSE, shown |-> <<>>]

\* maskValue(value)
MaskApply ==
  /\ cx.stage = "input"
  /\ cx' = [cx EXCEPT !.stage = "masked", !.masked = maskValue(cx.value)]
  /\ UNCHANGED <<vaultFile, tmpFile, orphans, config, pc, loc, nextKey, printed, ncmd, last>>

\* the output step of list on a decrypted vault, under each choice of flags
ListPrint ==
  /\ cx.stage = "masked"
  /\ \E secrets \in MaskSets(cx.value), reveal \in BOOLEAN, json \in BOOLEAN :
       cx' = [cx EXCEPT !.stage = "listed", !.secrets = secrets, !.reveal = reveal,
                        !.json = json, !.shown = ListOutput(secrets, reveal, json)]
  /\ UNCHANGED <<vaultFile, tmpFile, orphans, config, pc, loc, nextKey, printed, ncmd, last>>

NextMask ==
  \/ MaskApply
  \/ ListPrint

SpecMask == InitMask /\ [][NextMask]_vars


(***************************************************************************)
(* Properties of the sequential CLI (Spec) and of the codec (SpecCodec).   *)
(***************************************************************************)
\* the single invocation of the sequential CLI
Idle == pc[1] = "idle"

\* C1: in every reachable state, also after a kill at any step of init, add,
\* remove or migrate, the vault path is absent or holds one complete
\* ciphertext, the one a single encryptVault call of a started invocation
\* computed; partial bytes exist in temp files only.
C1_VaultAbsentOrComplete ==
  /\ vaultFile.kind \in {"absent", "age"}
  /\ vaultFile.kind = "age" =>
       /\ vaultFile.nonce[1] \in 1..ncmd
       /\ vaultFile.nonce[2] \in {1, 2}
       /\ vaultFile.rcpt \in Recipients
  /\ \A p \in Procs : pc[p] = "enc_rename" => tmpFile[p] = loc[p].cipher

\* an invocation was killed while it rewrote an existing vault: its partly
\* written temp file is left behind and the vault is intact
C1_Witness ==
  /\ last.err = "crash"
  /\ \E o \in orphans : o.kind = "partial"
  /\ vaultFile.kind = "age"
  /\ vaultFile = last.pre.vaultFile


\* the last invocation was a migrate without --dry-run that has ended
MigrateRan == Idle /\ last.cmd = "migrate" /\ ~last.dryRun

\* the secret names the last migrate moved
MigratedNames ==
  {last.provs[i].secretName : i \in DOMAIN last.provs}
    \cup {last.chans[i].secretName : i \in DOMAIN last.chans}

\* C2: a migrate without --dry-run never drops or alters a secret it does not
\* migrate: every (name, value) stored in the vault before the command under
\* a name that is not migrated is stored in the vault after it.
C2_MigrateKeepsUnrelatedSecrets ==
  MigrateRan =>
    \A e \in MapEntries(Stored(last.pre.vaultFile)) :
      e[1] \notin MigratedNames => e \in MapEntries(Stored(vaultFile))


\* two configurations hold the same settings (the order of keys is free)
SameConfig(c1, c2) ==
  /\ c1.enabled = c2.enabled
  /\ c1.publicKey = c2.publicKey
  /\ SameMap(c1.proxies, c2.proxies)
  /\ SameMap(c1.providers, c2.providers)
  /\ c1.channels = c2.channels

\* the last invocation is a successful migrate that ran right after another
\* successful migrate, both without --dry-run
SecondMigrate ==
  /\ MigrateRan
  /\ last.err = ""
  /\ last.prev.cmd = "migrate" /\ last.prev.err = "" /\ ~last.prev.dryRun

\* C3: a migrate that runs immediately after a successful migrate changes
\* nothing: the vault file is the one the first run left, so its SecretSet is
\* the same, and the configuration (apiKey fields, channel tokens, enabled,
\* publicKey, proxies) is the one the first run left.
C3_MigrateIdempotent ==
  SecondMigrate =>
    /\ vaultFile = last.pre.vaultFile
    /\ SameMap(Stored(vaultFile), Stored(last.pre.vaultFile))
    /\ SameConfig(config, last.pre.config)

\* a second migrate has run on a vault that holds the migrated secrets
C3_Witness ==
  /\ SecondMigrate
  /\ MapHas(Stored(vaultFile), S_OPENAI_API_KEY)
  /\ config.enabled
  /\ config.proxies # EmptyMap

\* a provider entry is eligible: a non-empty apiKey other than the sentinel,
\* and a provider with a proxy mapping in the registry
Eligible(providerName, apiKey) ==
  /\ apiKey # Undefined
  /\ apiKey # <<>>
  /\ apiKey # VAULT_PROXY_PLACEHOLDER_KEY
  /\ RegistryIndex(toLowerCase(providerName)) # 0

\* the names under which the last migrate may add secrets to the vault
EligibleNames ==
  {providerSecretName(e[1]) : e \in {x \in MapEntries(last.pre.config.providers) :
                                        Eligible(x[1], x[2])}}
    \cup {last.chans[i].secretName : i \in DOMAIN last.chans}

\* C4: after a successful migrate without --dry-run, every eligible provider
\* entry has its apiKey in the vault under the registry's secret name and no
\* apiKey in the configuration; every other provider entry is as it was, and
\* the vault has gained no name but those of the migrated secrets.
C4_MigrateMovesExactlyEligible ==
  (MigrateRan /\ last.err = "") =>
    /\ \A e \in MapEntries(last.pre.config.providers) :
         IF Eligible(e[1], e[2])
         THEN /\ MapHas(Stored(vaultFile), providerSecretName(e[1]))
              /\ MapGet(Stored(vaultFile), providerSecretName(e[1])) = e[2]
              /\ MapGet(config.providers, e[1]) = Undefined
         ELSE MapGet(config.providers, e[1]) = e[2]
    /\ MapKeys(Stored(vaultFile)) \ MapKeys(Stored(last.pre.vaultFile)) \subseteq EligibleNames

\* the last invocation was a remove of a name the vault did not hold
RemoveOfAbsent ==
  /\ Idle
  /\ last.cmd = "remove"
  /\ ~MapHas(Stored(last.pre.vaultFile), last.name)

\* C5: remove(name) for a name the vault does not hold fails and leaves the
\* vault file and the configuration exactly as they were; when the vault was
\* decrypted, the failure is the not-found error.
C5_RemoveAbsentFails ==
  RemoveOfAbsent =>
    /\ last.err # ""
    /\ vaultFile = last.pre.vaultFile
    /\ config = last.pre.config
    /\ (/\ ValidSecretName(last.name)
        /\ last.pre.config.publicKey # Undefined
        /\ last.key # Undefined
        /\ AgeDecrypts(last.pre.vaultFile, last.key)) => last.err = "SecretNotFound"

\* remove of an absent name on a vault that was decrypted and holds another
\* secret
C5_Witness ==
  /\ RemoveOfAbsent
  /\ last.err = "SecretNotFound"
  /\ Stored(vaultFile) # EmptyMap


\* decryptVault has been applied with an identity that is not the one of the
\* recipient, or to a file that is no longer the ciphertext
BadDecrypt ==
  /\ cx.stage = "decrypted"
  /\ cx.damaged \/ cx.used # generateKeypair(cx.key).identity

\* C6: decryptVault with an identity that does not match the recipient of the
\* file, or on a file that is not a valid ciphertext, always fails with the
\* decryption error: it throws, so it returns no SecretSet at all.
C6_BadDecryptFails ==
  BadDecrypt => cx.result.err = "DecryptionFailed"

\* a file holding secrets was decrypted with the identity of another keypair
C6_Witness ==
  /\ BadDecrypt
  /\ ~cx.damaged
  /\ cx.secrets # EmptyMap
  /\ cx.result.err = "DecryptionFailed"

\* C7: for every SecretSet s and keypair k, decryptVault with k.identity of
\* the file encryptVault wrote from s under k.recipient returns exactly s.
C7_EncryptDecryptRoundTrip ==
  (cx.stage = "decrypted" /\ ~cx.damaged /\ cx.used = generateKeypair(cx.key).identity) =>
    /\ cx.result.err = ""
    /\ SameMap(cx.result.secrets, cx.secrets)

\* no value of the SecretSet holds a raw newline
NewlineFree(secrets) == \A e \in MapEntries(secrets) : IndexOf(e[2], NL) = 0

\* C8: for every SecretSet s with valid names and newline-free values,
\* parseVaultSecrets(serializeVaultSecrets(s)) equals s.
C8_ParseSerializeRoundTrip ==
  (cx.stage = "parsed" /\ NewlineFree(cx.secrets)) => SameMap(cx.parsed, cx.secrets)

\* what may be stored where a public key is stored
IsRecipientOrNone(x) == x = Undefined \/ x \in Recipients

\* C9: whatever commands have run, no identity is in the configuration or in
\* a file the commands wrote: vault.publicKey, in the file and in every
\* configuration about to be written, is unset or a recipient, and the only
\* key material in a vault or temp file is the recipient it is encrypted to.
C9_NoIdentityPersisted ==
  /\ IsRecipientOrNone(config.publicKey)
  /\ \A p \in Procs : pc[p] = "cfg_write" => IsRecipientOrNone(loc[p].next.publicKey)
  /\ \A f \in {vaultFile} \cup orphans \cup {tmpFile[p] : p \in Procs} :
       f.kind \in {"age", "partial"} => f.rcpt \in Recipients

\* init has generated a keypair, stored its recipient and shown its identity
C9_Witness ==
  /\ Idle
  /\ last.cmd = "init" /\ last.err = ""
  /\ config.publicKey = generateKeypair(last.newKey).recipient
  /\ vaultFile.rcpt = config.publicKey
  /\ printed[last.newKey] = 1

\* C10: whenever an invocation of init or migrate has ended and the vault
\* file is encrypted under the recipient that invocation generated, the
\* identity of that recipient has been printed exactly once; no identity is
\* ever printed again later.
C10_IdentityPrintedOnce ==
  /\ (Idle /\ last.newKey # 0 /\ last.err # "crash"
        /\ vaultFile.rcpt = generateKeypair(last.newKey).recipient)
       => printed[last.newKey] = 1
  /\ \A k \in KeyIds : printed[k] <= 1

\* the string s is a mask of v: as long as v, each character a star or the
\* character of v at that place, and at least one star when v is not empty
IsMaskOf(v, s) ==
  /\ Len(s) = Len(v)
  /\ \A i \in 1..Len(v) : s[i] = "*" \/ s[i] = v[i]
  /\ v # <<>> => \E i \in 1..Len(v) : s[i] = "*"

\* C11: list shows a value in plaintext only under --json with --reveal;
\* with no flag every value is shown as (hidden); with exactly one of the
\* two flags every value is shown masked and never in full.
C11_ListRevealsOnlyWithBothFlags ==
  cx.stage = "listed" =>
    /\ Len(cx.shown) = Len(cx.secrets)
    /\ \A i \in DOMAIN cx.secrets :
         LET v == cx.secrets[i][2]
             out == cx.shown[i][2]
         IN  /\ cx.shown[i][1] = cx.secrets[i][1]
             /\ (cx.json /\ cx.reveal) => out = v
             /\ (~cx.json /\ ~cx.reveal) => out = S_hidden
             /\ (cx.json # cx.reveal) => IsMaskOf(v, out) /\ (v # <<>> => out # v)
             /\ (out = v /\ v # <<>>) => (cx.json /\ cx.reveal)

\* list --reveal without --json printed a secret of more than 8 characters
C11_Witness ==
  /\ cx.stage = "listed"
  /\ cx.reveal /\ ~cx.json
  /\ Len(cx.secrets) = 2
  /\ Len(cx.value) > 8
  /\ cx.shown[2][2] # S_hidden

\* C12: maskValue(v) is as long as v; up to 8 characters it is all stars;
\* beyond, it is the first 4 characters, Len(v) - 8 stars, the last 4.
C12_MaskShape ==
  cx.stage = "masked" =>
    LET v == cx.value
        m == cx.masked
        n == Len(v)
    IN  /\ Len(m) = n
        /\ n <= 8 => \A i \in 1..n : m[i] = "*"
        /\ n > 8 =>
             /\ \A i \in 1..4 : m[i] = v[i]
             /\ \A i \in 5..(n - 4) : m[i] = "*"
             /\ \A i \in (n - 3)..n : m[i] = v[i]
        /\ n = 9 => m = SubSeq(v, 1, 4) \o <<"*">> \o SubSeq(v, 6, 9)

\* a value of 10 characters was masked
C12_Witness ==
  /\ cx.stage = "masked"
  /\ Len(cx.value) = 10
  /\ cx.masked = SubSeq(cx.value, 1, 4) \o <<"*", "*">> \o SubSeq(cx.value, 7, 10)

\* the last command was given a --proxy-host that fails the validation
InvalidHostGiven ==
  /\ last.cmd \in {"init", "add", "migrate"}
  /\ last.proxyHost # Undefined
  /\ ~ValidHostname(last.proxyHost)

\* every proxy URL of the configuration is http://<valid host>:<digits>
NoInvalidHostWritten ==
  \A i \in DOMAIN config.proxies :
    \E h \in {g \in ProxyHosts : ValidHostname(g)} :
      LET url == config.proxies[i][2]
          start == HttpPrefix \o h \o <<":">>
      IN  /\ Len(url) > Len(start)
          /\ SubSeq(url, 1, Len(start)) = start
          /\ \A j \in (Len(start) + 1)..Len(url) : IsDigit(url[j])

\* the last command had to build a proxy URL from its --proxy-host
HostUsed ==
  \/ last.cmd \in {"init", "migrate"}
  \/ /\ last.cmd = "add"
     /\ ~last.noProxy
     /\ last.pp.port # Undefined \/ findProviderBySecretName(last.name) # Undefined

\* an invalid host that a command uses is rejected before the configuration
\* is written
InvalidHostUsedRejected ==
  (Idle /\ InvalidHostGiven /\ HostUsed) =>
    /\ last.err = "InvalidHostname"
    /\ config = last.pre.config

\* C13: a --proxy-host that fails the hostname validation, given to init,
\* add or migrate, makes the command fail with InvalidHostname before any
\* write of the configuration, and no proxy URL of the configuration ever
\* contains such a host.
C13_InvalidHostRejected ==
  /\ (Idle /\ InvalidHostGiven) =>
       /\ last.err = "InvalidHostname"
       /\ config = last.pre.config
  /\ NoInvalidHostWritten

\* the last command was an add that returned without error
AddSucceeded == Idle /\ last.cmd = "add" /\ last.err = ""

\* the decrypted vaults a and b agree on every name other than name
SameElsewhere(a, b, name) ==
  \A k \in (MapKeys(a) \cup MapKeys(b)) \ {name} :
    MapHas(a, k) /\ MapHas(b, k) /\ MapGet(a, k) = MapGet(b, k)

\* C14: after a successful add(name, value) the vault decrypts to a set
\* that maps name to exactly value and agrees with the set before the call
\* on every other name.
C14_AddIsUpsert ==
  AddSucceeded =>
    /\ MapHas(Stored(vaultFile), last.name)
    /\ MapGet(Stored(vaultFile), last.name) = last.value
    /\ SameElsewhere(Stored(vaultFile), Stored(last.pre.vaultFile), last.name)

\* the last command was a successful add of a secret name of the registry,
\* without --port/--provider and without --no-proxy
AddOfRegistryName ==
  /\ AddSucceeded
  /\ last.pp = NoPP
  /\ ~last.noProxy
  /\ findProviderBySecretName(last.name) # Undefined

\* the proxies of configuration c hold a mapping for provider
HasMapping(c, provider) ==
  \E i \in DOMAIN c.proxies : c.proxies[i][1] = provider /\ c.proxies[i][2] # <<>>

\* C15: a successful add of a registry secret name, without --port/--provider
\* and without --no-proxy, adds the default mapping of the provider when the
\* configuration had none, and when it had one the configuration is not
\* written at all: the existing URL stays.
C15_AddKeepsExistingMapping ==
  /\ AddOfRegistryName =>
       LET provider == findProviderBySecretName(last.name)
           before == last.pre.config
       IN  IF HasMapping(before, provider)
           THEN config = before
           ELSE config = WithProxies(before,
                           MapSet(before.proxies, provider,
                                  providerProxyUrl(provider, last.proxyHost).url))
  /\ \A p \in Procs :
       (pc[p] = "cfg_write" /\ loc[p].cmd = "add" /\ loc[p].pp = NoPP) =>
         ~HasMapping(config, findProviderBySecretName(loc[p].name))

\* add of OPENAI_API_KEY found no openai mapping and wrote the default one
C15_WitnessAdded ==
  /\ AddOfRegistryName
  /\ ~HasMapping(last.pre.config, findProviderBySecretName(last.name))
  /\ HasMapping(config, findProviderBySecretName(last.name))

\* add of OPENAI_API_KEY found a mapping other than the default one, and
\* left it
C15_Witness ==
  /\ AddOfRegistryName
  /\ HasMapping(last.pre.config, findProviderBySecretName(last.name))
  /\ MapGet(config.proxies, findProviderBySecretName(last.name))
       # providerProxyUrl(findProviderBySecretName(last.name), last.proxyHost).url

\* the last command was a successful add with --port and --provider and
\* without --no-proxy
AddExplicit == AddSucceeded /\ last.pp # NoPP /\ ~last.noProxy

\* the URL add writes for --port and --proxy-host
ExplicitUrl == ProxyUrl(last.proxyHost, ParsePort(last.pp.port, 0))

\* C16: a successful add with --port and --provider, without --no-proxy,
\* sets vault.proxies[provider] to http://<proxyHost>:<port>, also over an
\* existing mapping, and leaves every other mapping and the rest of the
\* configuration as they were.
C16_ExplicitMappingWritten ==
  AddExplicit =>
    /\ MapHas(config.proxies, last.pp.provider)
    /\ MapGet(config.proxies, last.pp.provider) = ExplicitUrl
    /\ SameElsewhere(config.proxies, last.pre.config.proxies, last.pp.provider)
    /\ WithProxies(config, EmptyMap) = WithProxies(last.pre.config, EmptyMap)

\* add --port 90 --provider openai replaced the default mapping of openai
C16_Witness ==
  /\ AddExplicit
  /\ HasMapping(last.pre.config, last.pp.provider)
  /\ MapGet(last.pre.config.proxies, last.pp.provider) # ExplicitUrl
  /\ Len(config.proxies) > 1

\* add --port 90 --provider openai found no openai mapping
C16_WitnessNew == AddExplicit /\ ~HasMapping(last.pre.config, last.pp.provider)

\* the last command was a remove that returned without error
RemoveSucceeded == Idle /\ last.cmd = "remove" /\ last.err = ""

\* what a successful remove(name) leaves of the proxy mappings: the one of
\* the provider that uses name is gone, the others are as before
RemoveProxyEffect ==
  RemoveSucceeded =>
    LET provider == findProviderBySecretName(last.name)
    IN  /\ provider # Undefined => ~MapHas(config.proxies, provider)
        /\ SameElsewhere(config.proxies, last.pre.config.proxies, provider)
        /\ WithProxies(config, EmptyMap) = WithProxies(last.pre.config, EmptyMap)

\* C17: after a successful remove(name) the vault has no entry for name and
\* every other entry is as before; the proxy mapping of the provider that
\* uses name is gone and every other mapping is as before.
C17_RemoveDeletesOnlyName ==
  /\ RemoveSucceeded =>
       /\ ~MapHas(Stored(vaultFile), last.name)
       /\ SameElsewhere(Stored(vaultFile), Stored(last.pre.vaultFile), last.name)
  /\ RemoveProxyEffect

\* the last command was an init that found a vault file
InitOnExisting == Idle /\ last.cmd = "init" /\ last.pre.vaultFile.kind # "absent"

\* C18: init on an existing vault without --force fails with AlreadyExists,
\* changes neither the vault file nor the configuration and generates no
\* keypair; with --force it replaces the vault by the empty SecretSet
\* encrypted to the recipient of a newly generated keypair.
C18_InitNeedsForce ==
  /\ (InitOnExisting /\ ~last.force) =>
       /\ last.err = "AlreadyExists"
       /\ vaultFile = last.pre.vaultFile
       /\ config = last.pre.config
       /\ last.newKey = 0
       /\ nextKey = last.pre.nextKey
  /\ (InitOnExisting /\ last.force /\ last.err = "") =>
       /\ last.newKey = last.pre.nextKey
       /\ nextKey = last.pre.nextKey + 1
       /\ vaultFile.kind = "age"
       /\ vaultFile.body = <<>>
       /\ Stored(vaultFile) = EmptyMap
       /\ vaultFile.rcpt = generateKeypair(last.newKey).recipient
       /\ vaultFile.rcpt # last.pre.vaultFile.rcpt
       /\ decryptVault(vaultFile, generateKeypair(last.newKey).identity).err = ""

\* init without --force was refused on an existing vault
C18_Witness == InitOnExisting /\ ~last.force /\ last.err = "AlreadyExists"

\* init --force replaced a vault that held a secret
C18_WitnessForce ==
  /\ InitOnExisting /\ last.force /\ last.err = ""
  /\ Stored(last.pre.vaultFile) # EmptyMap
  /\ Stored(vaultFile) = EmptyMap

\* the last command was an init that returned without error
InitSucceeded == Idle /\ last.cmd = "init" /\ last.err = ""

\* C19: after a successful init vault.proxies has a mapping for every
\* provider of the registry, every mapping that was there before has kept
\* its URL, vault.enabled is true and vault.publicKey is the recipient of
\* the keypair this init generated.
C19_InitWritesDefaults ==
  InitSucceeded =>
    /\ \A i \in DOMAIN VAULT_PROVIDER_DEFAULTS :
         HasMapping(config, VAULT_PROVIDER_DEFAULTS[i].name)
    /\ \A j \in DOMAIN last.pre.config.proxies :
         LET e == last.pre.config.proxies[j]
         IN  MapHas(config.proxies, e[1]) /\ MapGet(config.proxies, e[1]) = e[2]
    /\ config.enabled = TRUE
    /\ last.newKey # 0
    /\ config.publicKey = generateKeypair(last.newKey).recipient
    /\ config.publicKey = vaultFile.rcpt
    /\ config.providers = last.pre.config.providers
    /\ config.channels = last.pre.config.channels

\* init --force ran over a configuration whose openai mapping was not the
\* default one
C19_Witness ==
  /\ InitSucceeded
  /\ HasMapping(last.pre.config, S_openai)
  /\ MapGet(config.proxies, S_openai) # providerProxyUrl(S_openai, last.proxyHost).url
  /\ config.publicKey # last.pre.config.publicKey

\* C20: migrate --dry-run writes nothing: the vault file is neither created
\* nor re-encrypted, the configuration is not modified and no keypair is
\* generated, whatever the command reports.
C20_DryRunWritesNothing ==
  /\ (Idle /\ last.cmd = "migrate" /\ last.dryRun) =>
       /\ vaultFile = last.pre.vaultFile
       /\ config = last.pre.config
       /\ nextKey = last.pre.nextKey
       /\ last.newKey = 0
  /\ \A p \in Procs :
       (pc[p] # "idle" /\ loc[p].cmd = "migrate") => ~loc[p].dryRun

\* a dry run showed a plan for a configuration with keys to move, on an
\* installation without a vault
C20_Witness ==
  /\ Idle /\ last.cmd = "migrate" /\ last.dryRun /\ last.err = ""
  /\ last.provs # <<>>
  /\ vaultFile.kind = "absent"
  /\ config.publicKey = Undefined

\* the last command was a migrate, not a dry run, that found nothing to move
\* and returned without error
MigrateOfNothing ==
  /\ Idle /\ last.cmd = "migrate" /\ ~last.dryRun /\ last.err = ""
  /\ last.provs = <<>> /\ last.chans = <<>>

\* every mapping of configuration before is in configuration after, same URL
KeepsMappings(before, after) ==
  \A j \in DOMAIN before.proxies :
    LET e == before.proxies[j]
    IN  MapHas(after.proxies, e[1]) /\ MapGet(after.proxies, e[1]) = e[2]

C21_WitnessAdded ==
  /\ MigrateOfNothing
  /\ ~HasMapping(last.pre.config, S_openai)

\* the last command was a migrate that moved at least one secret and
\* returned without error
MigrateMoved ==
  /\ Idle /\ last.cmd = "migrate" /\ ~last.dryRun /\ last.err = ""
  /\ last.provs # <<>> \/ last.chans # <<>>

\* the names of the providers the last migrate moved
MovedProviders == {last.provs[j].providerName : j \in DOMAIN last.provs}

\* the names of the registry providers
RegistryNames == {VAULT_PROVIDER_DEFAULTS[i].name : i \in DOMAIN VAULT_PROVIDER_DEFAULTS}

\* C22: after a migrate that moved at least one secret, vault.proxies holds
\* the default URL for the given host for every migrated provider and every
\* registry provider, every other mapping configured before is kept,
\* vault.enabled is true and vault.publicKey is the recipient the vault file
\* is encrypted to.
C22_MigrateWritesMappings ==
  MigrateMoved =>
    /\ \A n \in RegistryNames \cup MovedProviders :
         /\ MapHas(config.proxies, n)
         /\ MapGet(config.proxies, n) = providerProxyUrl(n, last.proxyHost).url
    /\ \A j \in DOMAIN last.pre.config.proxies :
         LET e == last.pre.config.proxies[j]
         IN  e[1] \notin (RegistryNames \cup MovedProviders) =>
               MapHas(config.proxies, e[1]) /\ MapGet(config.proxies, e[1]) = e[2]
    /\ config.enabled = TRUE
    /\ vaultFile.kind = "age"
    /\ config.publicKey = vaultFile.rcpt

\* a migrate moved the key of openai while openai was mapped to another URL
C22_Witness ==
  /\ MigrateMoved
  /\ S_openai \in MovedProviders
  /\ HasMapping(last.pre.config, S_openai)
  /\ MapGet(last.pre.config.proxies, S_openai) # MapGet(config.proxies, S_openai)

\* a migrate ran over a mapping of a provider outside the registry
C22_WitnessOther ==
  /\ MigrateMoved
  /\ HasMapping(last.pre.config, S_custom)
  /\ HasMapping(config, S_custom)

\* the channel entries of the table whose channel is configured in cfg
ConfiguredEntries(cfg) ==
  IF ~IsObj(cfg.channels) THEN {}
  ELSE {i \in DOMAIN VAULT_CHANNEL_DEFAULTS :
          IsObj(Field(cfg.channels, VAULT_CHANNEL_DEFAULTS[i].channel))}

\* the tokens in the per-channel fields of cfg, as
\* [channel, field, acct, name, token]
BaseTokens(cfg) ==
  {[channel |-> VAULT_CHANNEL_DEFAULTS[i].channel,
    field |-> VAULT_CHANNEL_DEFAULTS[i].tokenField,
    acct |-> Undefined,
    name |-> VAULT_CHANNEL_DEFAULTS[i].secretName,
    token |-> Trim(Field(Field(cfg.channels, VAULT_CHANNEL_DEFAULTS[i].channel),
                         VAULT_CHANNEL_DEFAULTS[i].tokenField).v)] :
     i \in {j \in ConfiguredEntries(cfg) :
              IsToken(Field(Field(cfg.channels, VAULT_CHANNEL_DEFAULTS[j].channel),
                            VAULT_CHANNEL_DEFAULTS[j].tokenField))}}

\* the accounts object of the channel of table entry i, Absent if none
AccountsOf(cfg, i) ==
  Field(Field(cfg.channels, VAULT_CHANNEL_DEFAULTS[i].channel), S_accounts)

\* the tokens in the per-account fields of cfg
AccountTokens(cfg) ==
  UNION {
    {[channel |-> VAULT_CHANNEL_DEFAULTS[i].channel,
      field |-> VAULT_CHANNEL_DEFAULTS[i].tokenField,
      acct |-> AccountsOf(cfg, i).v[k][1],
      name |-> VAULT_CHANNEL_DEFAULTS[i].secretName \o <<"_">>
               \o toUpperCase(AccountsOf(cfg, i).v[k][1]),
      token |-> Trim(Field(AccountsOf(cfg, i).v[k][2],
                           VAULT_CHANNEL_DEFAULTS[i].tokenField).v)] :
       k \in {n \in DOMAIN AccountsOf(cfg, i).v :
                /\ IsObj(AccountsOf(cfg, i).v[n][2])
                /\ IsToken(Field(AccountsOf(cfg, i).v[n][2],
                                 VAULT_CHANNEL_DEFAULTS[i].tokenField))}} :
    i \in {j \in ConfiguredEntries(cfg) : IsObj(AccountsOf(cfg, j))}}

DiscoveredTokens(cfg) == BaseTokens(cfg) \cup AccountTokens(cfg)

\* C23: migrate finds the channel tokens of the per-channel field and of
\* every per-account field, names each by the base name or the base name
\* with the uppercased account id, distinct (channel, account) fields get
\* distinct names, and afterwards the vault holds every token found under
\* its name and the configuration holds none of them.
C23_ChannelTokensMoved ==
  MigrateMoved =>
    /\ \A t \in DiscoveredTokens(last.pre.config) :
         \E j \in DOMAIN last.chans :
           last.chans[j].secretName = t.name /\ last.chans[j].token = t.token
    /\ \A t, u \in DiscoveredTokens(last.pre.config) :
         t.name = u.name => (t.channel = u.channel /\ t.field = u.field /\ t.acct = u.acct)
    /\ \A t \in DiscoveredTokens(last.pre.config) :
         /\ MapHas(Stored(vaultFile), t.name)
         /\ MapGet(Stored(vaultFile), t.name) = t.token
    /\ DiscoveredTokens(config) = {}


(***************************************************************************)
(* The consumers of channel tokens: resolveTelegramToken,                  *)
(* resolveDiscordToken and resolveSlackAccount for the default account.    *)
(* Their sources are read once (the startup vault store, the               *)
(* configuration, the environment, the token file) and the resolver is     *)
(* applied to what was read.                                               *)
(***************************************************************************)
S_V == <<"V">>
S_C == <<"C">>
S_E == <<"E">>
S_F == <<"F">>
S_BotV == <<"B","o","t"," ","V">>

\* the token file of the configuration: not configured, configured but not
\* on disk, or on disk with the given content
NoTokenFile == [configured |-> FALSE, exists |-> FALSE, content |-> <<>>]
MissingTokenFile == [configured |-> TRUE, exists |-> FALSE, content |-> <<>>]
TokenFileWith(content) == [configured |-> TRUE, exists |-> TRUE, content |-> content]
TokenFiles == {NoTokenFile, MissingTokenFile, TokenFileWith(<<NL>>), TokenFileWith(S_F \o <<NL>>)}

\* what each source may hold for one token
VaultTokens == {Undefined, S_V, S_BotV}
ConfigTokens == {Undefined, S_C}
EnvTokens == {<<>>, S_E}

Resolved(token, source) == [token |-> token, source |-> source]
NotResolved == Resolved(<<>>, "unresolved")

\* a Discord token loses a leading "Bot "
normalizeDiscordToken(raw) ==
  LET t == Trim(raw)
  IN  IF Len(t) >= 4 /\ SubSeq(t, 1, 4) = <<"B","o","t"," ">>
        THEN Trim(SubSeq(t, 5, Len(t)))
        ELSE t

\* a configured token file decides alone: its trimmed content, or nothing
readTokenFile(file) ==
  IF file.exists /\ Trim(file.content) # <<>>
    THEN Resolved(Trim(file.content), "tokenFile")
    ELSE Resolved(<<>>, "none")

\* a source holds a value when it is defined and not blank
HasValue(v) == v # Undefined /\ Trim(v) # <<>>

\* vault, then configuration, then environment
resolveInOrder(vault, cfg, env, none) ==
  IF HasValue(vault) THEN Resolved(Trim(vault), "vault")
  ELSE IF HasValue(cfg) THEN Resolved(Trim(cfg), "config")
  ELSE IF HasValue(env) THEN Resolved(Trim(env), "env")
  ELSE Resolved(none, "none")

resolveTelegramToken(vault, cfg, env, file) ==
  IF HasValue(vault) THEN Resolved(Trim(vault), "vault")
  ELSE IF file.configured THEN readTokenFile(file)
  ELSE resolveInOrder(Undefined, cfg, env, <<>>)

resolveDiscordToken(vault, cfg, env) ==
  LET r == resolveInOrder(vault, cfg, env, <<>>)
  IN  Resolved(normalizeDiscordToken(r.token), r.source)

\* resolveSlackAccount, for the bot token and for the app token alike
resolveSlackToken(vault, cfg, env) == resolveInOrder(vault, cfg, env, Undefined)

\* the resolver of the token VAULT_CHANNEL_DEFAULTS[i]
resolveChannelToken(i, vault, cfg, env, file) ==
  IF i = 1 THEN resolveTelegramToken(vault, cfg, env, file)
  ELSE IF i = 2 THEN resolveDiscordToken(vault, cfg, env)
  ELSE resolveSlackToken(vault, cfg, env)

\* only Telegram reads a token file
SupportsTokenFile(i) == i = 1

InitResolve ==
  /\ InitCLI
  /\ config = CfgEmpty
  /\ \E i \in DOMAIN VAULT_CHANNEL_DEFAULTS, vault \in VaultTokens, cfg \in ConfigTokens,
        env \in EnvTokens, file \in TokenFiles :
       /\ (~SupportsTokenFile(i) => file = NoTokenFile)
       /\ cx = [stage |-> "input", channel |-> i, vault |-> vault, cfg |-> cfg,
                env |-> env, file |-> file, result |-> NotResolved]

\* the consumer resolves its token
ResolveToken ==
  /\ cx.stage = "input"
  /\ cx' = [cx EXCEPT !.stage = "resolved",
                      !.result = resolveChannelToken(cx.channel, cx.vault, cx.cfg,
                                                     cx.env, cx.file)]
  /\ UNCHANGED <<vaultFile, tmpFile, orphans, config, pc, loc, nextKey, printed, ncmd, last>>

NextResolve == ResolveToken

SpecResolve == InitResolve /\ [][NextResolve]_vars

\* the first source holding a value in the order vault, configuration,
\* environment, token file
FirstSource(c) ==
  IF HasValue(c.vault) THEN "vault"
  ELSE IF HasValue(c.cfg) THEN "config"
  ELSE IF HasValue(c.env) THEN "env"
  ELSE IF c.file.exists /\ HasValue(c.file.content) THEN "tokenFile"
  ELSE "none"

\* C24: a consumer takes its token from the first source that holds a value,
\* in the order vault, configuration, environment, token file, and reports
\* that source; a later source is never used when an earlier one has a value.
C24_FirstSourceWins ==
  cx.stage = "resolved" => cx.result.source = FirstSource(cx)

\* the token file is configured but not on disk while the configuration
\* holds a token
C24_TokenFileShadowsConfig ==
  /\ cx.stage = "resolved"
  /\ cx.file = MissingTokenFile
  /\ cx.vault = Undefined
  /\ HasValue(cx.cfg)


(***************************************************************************)
(* Channel token distribution: fetchVaultChannelTokens at the startup of   *)
(* the gateway, one GET per entry of VAULT_CHANNEL_DEFAULTS against the    *)
(* sidecar, each with an outcome chosen by the network and the sidecar.    *)
(***************************************************************************)
\* what one `await fetch(...)` and `await resp.text()` can come to: a
\* response whose body is read, a response whose body cannot be read, a
\* rejected fetch (connection refused), an aborted fetch (the 5 s timeout)
Responded(status, body) == [kind |-> "response", status |-> status, body |-> body, bodyFails |-> FALSE]
BodyLost == [kind |-> "response", status |-> 200, body |-> <<>>, bodyFails |-> TRUE]
NetworkError == [kind |-> "error", status |-> 0, body |-> <<>>, bodyFails |-> FALSE]
TimedOut == [kind |-> "timeout", status |-> 0, body |-> <<>>, bodyFails |-> FALSE]

\* the bodies of a 200: absent secret, blank, a token, a token in whitespace
TokenBodies == {<<>>, <<" ">>, <<"t">>, <<" ", "t", NL>>}

FetchOutcomes ==
  {Responded(200, b) : b \in TokenBodies}
    \cup {Responded(404, <<"n">>), Responded(500, <<>>), BodyLost, NetworkError, TimedOut}

\* Response.ok
ok(status) == status >= 200 /\ status <= 299

LoadedMsg(secretName) == [msg |-> "loaded", secretName |-> secretName]
FailedMsg(secretName) == [msg |-> "failed", secretName |-> secretName]

\* the body of the loop stored the trimmed body as it came
fetchOneAnyBody(st, entry, o) ==
  IF o.kind = "response" /\ ok(o.status) /\ ~o.bodyFails
    THEN [st EXCEPT !.store = MapSet(@, entry.secretName, Trim(o.body)),
                    !.log = Append(@, LoadedMsg(entry.secretName))]
  ELSE IF o.kind = "response" /\ ~o.bodyFails THEN st
  ELSE [st EXCEPT !.log = Append(@, FailedMsg(entry.secretName))]

fetchOneUntrimmed(st, entry, o) ==
  IF o.kind = "response" /\ ok(o.status) /\ ~o.bodyFails /\ Trim(o.body) # <<>>
    THEN [st EXCEPT !.store = MapSet(@, entry.secretName, o.body),
                    !.log = Append(@, LoadedMsg(entry.secretName))]
  ELSE IF o.kind = "response" /\ ~o.bodyFails THEN st
  ELSE [st EXCEPT !.log = Append(@, FailedMsg(entry.secretName))]

\* the body of the loop: try { fetch; if ok, trim and store } catch { log }
fetchOne(st, entry, o) ==
  IF o.kind = "response"
    THEN IF ok(o.status)
           THEN IF o.bodyFails
                  THEN [st EXCEPT !.log = Append(@, FailedMsg(entry.secretName))]
                  ELSE LET token == Trim(o.body)
                       IN  IF token # <<>>
                             THEN [st EXCEPT !.store = MapSet(@, entry.secretName, token),
                                             !.log = Append(@, LoadedMsg(entry.secretName))]
                             ELSE st
           ELSE st
    ELSE [st EXCEPT !.log = Append(@, FailedMsg(entry.secretName))]

InitFetch ==
  /\ InitCLI
  /\ config = CfgEmpty
  /\ \E enabled \in BOOLEAN :
       cx = [stage |-> "called", enabled |-> enabled, i |-> 1, store |-> EmptyMap,
             log |-> <<>>, seen |-> <<>>]

\* if (!cfg.vault?.enabled) return
FetchDisabled ==
  /\ cx.stage = "called"
  /\ ~cx.enabled
  /\ cx' = [cx EXCEPT !.stage = "returned"]
  /\ UNCHANGED <<vaultFile, tmpFile, orphans, config, pc, loc, nextKey, printed, ncmd, last>>

\* one iteration of the loop over VAULT_CHANNEL_DEFAULTS
FetchEntry ==
  /\ cx.stage = "called"
  /\ cx.enabled
  /\ cx.i <= Len(VAULT_CHANNEL_DEFAULTS)
  /\ \E o \in FetchOutcomes :
       LET entry == VAULT_CHANNEL_DEFAULTS[cx.i]
           st == fetchOne([store |-> cx.store, log |-> cx.log], entry, o)
       IN  cx' = [cx EXCEPT !.i = @ + 1, !.store = st.store, !.log = st.log,
                            !.seen = Append(@, <<entry.secretName, o>>)]
  /\ UNCHANGED <<vaultFile, tmpFile, orphans, config, pc, loc, nextKey, printed, ncmd, last>>

\* the loop is over: the promise resolves
FetchReturn ==
  /\ cx.stage = "called"
  /\ cx.enabled
  /\ cx.i > Len(VAULT_CHANNEL_DEFAULTS)
  /\ cx' = [cx EXCEPT !.stage = "returned"]
  /\ UNCHANGED <<vaultFile, tmpFile, orphans, config, pc, loc, nextKey, printed, ncmd, last>>

NextFetch ==
  \/ FetchDisabled
  \/ FetchEntry
  \/ FetchReturn

SpecFetch == InitFetch /\ [][NextFetch]_vars

\* the attempt did not bring a 200 with a readable body
FailedAttempt(o) == ~(o.kind = "response" /\ o.status = 200 /\ ~o.bodyFails)

\* the secret names of the table, in its order
ChannelSecretNames == [i \in DOMAIN VAULT_CHANNEL_DEFAULTS |-> VAULT_CHANNEL_DEFAULTS[i].secretName]

FetchReturned == cx.stage = "returned" /\ cx.enabled

\* C25: with the vault enabled, fetchVaultChannelTokens returns after one
\* attempt per channel-token definition, in the order of the table, whatever
\* the outcomes; every failed attempt (non-200, network error, timeout) is
\* logged, stores nothing and is followed by the remaining attempts.
C25_EveryDefinitionAttempted ==
  FetchReturned =>
    /\ [k \in DOMAIN cx.seen |-> cx.seen[k][1]] = ChannelSecretNames
    /\ \A k \in DOMAIN cx.seen :
         FailedAttempt(cx.seen[k][2]) =>
           /\ ~MapHas(cx.store, cx.seen[k][1])
           /\ \E j \in DOMAIN cx.log : cx.log[j] = FailedMsg(cx.seen[k][1])

\* the part of C25 that does not speak of the log
C25_AttemptsAndStore ==
  FetchReturned =>
    /\ [k \in DOMAIN cx.seen |-> cx.seen[k][1]] = ChannelSecretNames
    /\ \A k \in DOMAIN cx.seen :
         FailedAttempt(cx.seen[k][2]) => ~MapHas(cx.store, cx.seen[k][1])

\* a non-200 answer was among the outcomes of a call that returned
C25_NonOkSeen ==
  /\ FetchReturned
  /\ \E k \in DOMAIN cx.seen : cx.seen[k][2].kind = "response" /\ cx.seen[k][2].status = 404

\* the attempt brought a 200 whose body is not blank
Storable(o) == o.kind = "response" /\ o.status = 200 /\ ~o.bodyFails /\ Trim(o.body) # <<>>

MaxLines == 2

S_AGE_SECRET_KEY == <<"A","G","E","_","S","E","C","R","E","T","_","K","E","Y">>
S_VAULT_VARS == <<"V","A","U","L","T","_","V","A","R","S">>
S_SECRETS_DIR == <<"S","E","C","R","E","T","S","_","D","I","R">>
S_A_B == <<"A","-","B">>

\* SECRETS_DIR="/run/secrets", and a directory that does not exist
D_run == <<"/","r">>
D_none == <<"/","n">>
DirExists(d) == d = D_run

EnvLine(key, value) == key \o <<"=">> \o value

\* the lines age may decrypt: secrets under valid names, names that are not
\* valid, a comment, a blank line, names the script itself uses
EnvLines ==
  { EnvLine(S_OPENAI_API_KEY, <<"k">>),
    EnvLine(S_MY_KEY, <<"m">>),
    EnvLine(S_my_key, <<"x">>),
    EnvLine(S_A_B, <<"y">>),
    <<"#", "c">>,
    <<>>,
    EnvLine(S_VAULT_VARS, <<"z">>),
    EnvLine(S_SECRETS_DIR, D_none) }

RECURSIVE SeqsUpTo(_, _)
SeqsUpTo(S, n) ==
  IF n = 0 THEN {<<>>}
  ELSE LET shorter == SeqsUpTo(S, n-1)
       IN  shorter \cup {Append(q, x) : q \in shorter, x \in S}

\* the placeholders of the template as grep -o | sort -u lists them
Templates == {<<>>, <<S_OPENAI_API_KEY>>, <<S_MY_KEY, S_OPENAI_API_KEY>>}

\* IFS='=' read -r key value: key up to the first "=", value the rest; a
\* single "=" closing the line is a field terminator and is dropped
readKeyValue(line) ==
  LET p == IndexOf(line, "=")
      rest == SubSeq(line, p+1, Len(line))
  IN  IF p = 0 THEN [key |-> line, value |-> <<>>]
      ELSE [key |-> SubSeq(line, 1, p-1),
            value |-> IF rest # <<>> /\ IndexOf(rest, "=") = Len(rest)
                        THEN SubSeq(rest, 1, Len(rest)-1)
                        ELSE rest]

\* the two cases let every key through
shellNameOkAny(key) == key # <<>>

\* case "$key" in [A-Z]*) and not *[!A-Z0-9_]*
shellNameOk(key) ==
  /\ key # <<>>
  /\ IsUpper(key[1])
  /\ \A i \in DOMAIN key : IsUpper(key[i]) \/ IsDigit(key[i]) \/ key[i] = "_"

\* $VAR, empty when unset (the script reads only variables it has set)
ShGet(sh, name) == IF MapHas(sh.vars, name) THEN MapGet(sh.vars, name) ELSE <<>>

\* printenv NAME in a child process
PrintEnv(sh, name) == IF name \in sh.exported THEN ShGet(sh, name) ELSE <<>>

ShSet(sh, name, value) == [sh EXCEPT !.vars = MapSet(@, name, value)]
ShExport(sh, name, value) ==
  [sh EXCEPT !.vars = MapSet(@, name, value), !.exported = @ \cup {name}]
ShUnset(sh, name) ==
  [sh EXCEPT !.vars = MapDelete(@, name), !.exported = @ \ {name}]

InvalidNameWarning(key) == [warning |-> "invalid", names |-> <<key>>]
MissingWarning(names) == [warning |-> "missing", names |-> names]

\* the while loop over the decrypted env file
RECURSIVE exportLoop(_, _)
exportLoop(sh, lines) ==
  IF lines = <<>> THEN sh
  ELSE LET kv == readKeyValue(Head(lines))
           key == kv.key
       IN  IF key = <<>> \/ key[1] = "#" THEN exportLoop(sh, Tail(lines))
           ELSE IF ~shellNameOk(key)
             THEN exportLoop([sh EXCEPT !.warnings = Append(@, InvalidNameWarning(key))],
                             Tail(lines))
           ELSE LET e == ShExport(sh, key, kv.value)
                    t == ShSet(e, S_VAULT_VARS, ShGet(e, S_VAULT_VARS) \o <<" ">> \o key)
                IN  exportLoop([t EXCEPT !.everExported = @ \cup {key}], Tail(lines))

\* the words of an unquoted expansion
Words(s) == SelectSeq(Split(s, " "), LAMBDA w : w # <<>>)

\* for var in ...; do unset "$var"; done
RECURSIVE unsetAll(_, _)
unsetAll(sh, names) ==
  IF names = <<>> THEN sh ELSE unsetAll(ShUnset(sh, Head(names)), Tail(names))

\* envsubst "$ENVSUBST_ARGS" < template: each placeholder with its value
render(sh, template) == [i \in DOMAIN template |-> <<template[i], PrintEnv(sh, template[i])>>]

NoEnvFile == [exists |-> FALSE, content |-> <<>>]
NoConf == [exists |-> FALSE, mode |-> "", content |-> <<>>]

InitBoot ==
  /\ InitCLI
  /\ config = CfgEmpty
  /\ \E key \in {<<>>, <<"K">>}, vaultExists \in BOOLEAN, templateExists \in BOOLEAN,
        decryptOk \in BOOLEAN, template \in Templates, lines \in SeqsUpTo(EnvLines, MaxLines) :
       cx = [pc |-> "validate", keyGiven |-> key, vaultExists |-> vaultExists, templateExists |-> templateExists,
             decryptOk |-> decryptOk, template |-> template, lines |-> lines,
             vars |-> << <<S_AGE_SECRET_KEY, key>>, <<S_SECRETS_DIR, D_run>> >>,
             exported |-> {S_AGE_SECRET_KEY}, warnings |-> <<>>, everExported |-> {},
             envFile |-> NoEnvFile, conf |-> NoConf, decrypted |-> FALSE, code |-> 0]

BootRest == UNCHANGED <<vaultFile, tmpFile, orphans, config, pc, loc, nextKey, printed, ncmd, last>>

BootExit(code) == [cx EXCEPT !.pc = "exited", !.code = code]

\* the check of the vault file was left out
missingPrerequisiteNoVault(c) ==
  ShGet(c, S_AGE_SECRET_KEY) = <<>> \/ ~c.templateExists

\* [ -z "${AGE_SECRET_KEY:-}" ], [ ! -f "$VAULT_AGE" ], [ ! -f "$TEMPLATE" ]
missingPrerequisite(c) ==
  ShGet(c, S_AGE_SECRET_KEY) = <<>> \/ ~c.vaultExists \/ ~c.templateExists

\* the three checks of the required inputs
BootValidate ==
  /\ cx.pc = "validate"
  /\ cx' = IF missingPrerequisite(cx)
             THEN BootExit(1)
             ELSE [cx EXCEPT !.pc = "scan"]
  /\ BootRest

\* SECRET_VARS=$(grep -oE ... | sort -u); none found (or no file to search)
\* is an error
BootScan ==
  /\ cx.pc = "scan"
  /\ cx' = IF ~cx.templateExists \/ cx.template = <<>> THEN BootExit(1) ELSE [cx EXCEPT !.pc = "decrypt"]
  /\ BootRest

\* age -d > "$SECRETS_DIR/env": the redirection creates the file, age fills
\* it or fails; unset AGE_SECRET_KEY
BootDecrypt ==
  /\ cx.pc = "decrypt"
  /\ cx' = IF cx.vaultExists /\ cx.decryptOk
             THEN [ShUnset(cx, S_AGE_SECRET_KEY) EXCEPT
                     !.pc = "export", !.decrypted = TRUE,
                     !.envFile = [exists |-> TRUE, content |-> cx.lines]]
             ELSE [BootExit(1) EXCEPT !.envFile = [exists |-> TRUE, content |-> <<>>]]
  /\ BootRest

\* VAULT_VARS=""; while read ... done < "$SECRETS_DIR/env"
BootExport ==
  /\ cx.pc = "export"
  /\ cx' = [exportLoop(ShSet(cx, S_VAULT_VARS, <<>>), cx.envFile.content) EXCEPT !.pc = "warn"]
  /\ BootRest

\* the warning about template variables without a value
BootWarnMissing ==
  /\ cx.pc = "warn"
  /\ LET missing == SelectSeq(cx.template, LAMBDA var : PrintEnv(cx, var) = <<>>)
     IN  cx' = [cx EXCEPT !.pc = "render",
                          !.warnings = IF missing # <<>> THEN Append(@, MissingWarning(missing))
                                       ELSE @]
  /\ BootRest

\* envsubst ... > "$SECRETS_DIR/nginx.conf"
BootRender ==
  /\ cx.pc = "render"
  /\ cx' = IF DirExists(ShGet(cx, S_SECRETS_DIR))
             THEN [cx EXCEPT !.pc = "wipe",
                             !.conf = [exists |-> TRUE, mode |-> "0644",
                                       content |-> render(cx, cx.template)]]
             ELSE BootExit(2)
  /\ BootRest

\* rm -f "$SECRETS_DIR/env"; unset every word of $VAULT_VARS
BootWipe ==
  /\ cx.pc = "wipe"
  /\ cx' = [unsetAll(cx, Words(ShGet(cx, S_VAULT_VARS))) EXCEPT
              !.pc = "chmod",
              !.envFile = IF DirExists(ShGet(cx, S_SECRETS_DIR)) THEN NoEnvFile ELSE @]
  /\ BootRest

\* chmod 0400 "$SECRETS_DIR/nginx.conf"
BootChmod ==
  /\ cx.pc = "chmod"
  /\ cx' = [cx EXCEPT !.pc = "exec", !.conf.mode = "0400"]
  /\ BootRest

\* exec nginx -c "$SECRETS_DIR/nginx.conf"
BootExec ==
  /\ cx.pc = "exec"
  /\ cx' = [cx EXCEPT !.pc = "handed"]
  /\ BootRest

NextBoot ==
  \/ BootValidate
  \/ BootScan
  \/ BootDecrypt
  \/ BootExport
  \/ BootWarnMissing
  \/ BootRender
  \/ BootWipe
  \/ BootChmod
  \/ BootExec

SpecBoot == InitBoot /\ [][NextBoot]_vars

\* the script runs to its end: the shell executes one command after another
SpecBootFair == SpecBoot /\ WF_vars(NextBoot)

HandedOff == cx.pc = "handed"

\* nothing of the vault is left in the shell or on the tmpfs, the rendered
\* file is read-only for its owner
Wiped ==
  /\ ~MapHas(cx.vars, S_AGE_SECRET_KEY)
  /\ \A n \in cx.everExported : ~MapHas(cx.vars, n) /\ n \notin cx.exported
  /\ ~cx.envFile.exists
  /\ cx.conf.exists
  /\ cx.conf.mode = "0400"

\* C27: when the bootstrap hands control to the reverse proxy, AGE_SECRET_KEY
\* and every variable exported from the decrypted vault are unset, the
\* decrypted env file is deleted and the rendered config has mode 0400.
C27_WipedAtHandOff == HandedOff => Wiped

\* the keys of the decrypted lines
LineKeys == {readKeyValue(cx.lines[i]).key : i \in DOMAIN cx.lines}

\* C27 for vaults that hold no secret named VAULT_VARS
C27_WipedUnlessShadowed ==
  (HandedOff /\ S_VAULT_VARS \notin LineKeys) => Wiped

\* a hand-off after a secret was exported and a secret named VAULT_VARS
\* followed it
C27_ShadowedHandOff ==
  /\ HandedOff
  /\ S_VAULT_VARS \in LineKeys
  /\ S_OPENAI_API_KEY \in cx.everExported

\* a prerequisite of the script is missing
PrerequisiteMissing == cx.keyGiven = <<>> \/ ~cx.vaultExists \/ ~cx.templateExists

\* C28: with the key unset or empty, the vault file missing or the template
\* missing, the bootstrap exits with a non-zero status at its first step:
\* nothing is decrypted, no file is written in the secrets directory and the
\* proxy is not started.
C28_FailFast ==
  PrerequisiteMissing =>
    /\ cx.pc \in {"validate", "exited"}
    /\ cx.pc = "exited" => cx.code # 0
    /\ ~cx.decrypted
    /\ ~cx.envFile.exists
    /\ ~cx.conf.exists

\* the script has exited for a missing vault file alone
C28_Witness ==
  /\ cx.pc = "exited"
  /\ cx.keyGiven # <<>>
  /\ ~cx.vaultExists
  /\ cx.templateExists
  /\ cx.template # <<>>
  /\ cx.decryptOk

\* the values a child process can see, and the values in the rendered file
EnvValues == {MapGet(cx.vars, n) : n \in cx.exported \cap MapKeys(cx.vars)}
ConfValues == {cx.conf.content[i][2] : i \in DOMAIN cx.conf.content}

\* the decrypted lines that carry a name (not blank, not a comment)
NamedLines ==
  {kv \in {readKeyValue(cx.lines[i]) : i \in DOMAIN cx.lines} :
     kv.key # <<>> /\ kv.key[1] # "#"}

PastExport == cx.decrypted /\ cx.pc # "export"

\* C29: only names matching [A-Z][A-Z0-9_]* are exported from the decrypted
\* vault; a line under any other name is skipped with a warning, and neither
\* the name nor its value reaches the environment or the rendered config.
C29_OnlyValidNamesExported ==
  /\ \A n \in cx.everExported : ValidSecretName(n)
  /\ \A n \in cx.exported : ValidSecretName(n)
  /\ PastExport =>
       \A kv \in NamedLines :
         IF ValidSecretName(kv.key)
           THEN kv.key \in cx.everExported
           ELSE /\ kv.key \notin cx.exported
                /\ ~MapHas(cx.vars, kv.key)
                /\ kv.value \notin EnvValues
                /\ kv.value \notin ConfValues
                /\ \E j \in DOMAIN cx.warnings : cx.warnings[j] = InvalidNameWarning(kv.key)

\* a hand-off after a line with an invalid name was skipped and a secret
\* under a valid name was rendered
C29_Witness ==
  /\ HandedOff
  /\ \E kv \in NamedLines : ~ValidSecretName(kv.key) /\ ValidSecretName(<<kv.key[1]>>)
  /\ <<"k">> \in ConfValues

\* C30: once the prerequisites were present and the vault was decrypted, the
\* bootstrap eventually hands control to the reverse proxy, whether or not
\* the placeholders of the template have values.
C30_EventuallyHandsOff == cx.decrypted ~> HandedOff

\* C30 in its finite form: after a successful decryption the script does not
\* exit
C30_NoExitAfterDecrypt == cx.decrypted => cx.pc # "exited"

\* C30 for vaults that hold no secret named SECRETS_DIR
C30_HandsOffUnlessShadowed ==
  (cx.decrypted /\ S_SECRETS_DIR \notin LineKeys) ~> HandedOff

\* a hand-off with a warning about placeholders without a value
C30_MissingOnlyWarns ==
  /\ HandedOff
  /\ \E j \in DOMAIN cx.warnings : cx.warnings[j].warning = "missing"


(***************************************************************************)
(* Two invocations of the CLI at once: nothing coordinates them, so their  *)
(* steps (each read and each write of a file) interleave freely.  They     *)
(* start on a fresh install or after a first `vault init`.                 *)
(***************************************************************************)
Procs2 == {1, 2}

\* the files `vault init` leaves on the fresh install CfgRich
InitializedVault == VaultCiphertext(EmptyMap, generateKeypair(1).recipient, <<0, 1>>)
InitializedConfig ==
  InitNextConfig(CfgRich, generateKeypair(1), buildDefaultProxyMap(S_vault).proxies)

InitConc ==
  /\ tmpFile = [p \in Procs2 |-> NoFile]
  /\ orphans = {}
  /\ pc = [p \in Procs2 |-> "idle"]
  /\ loc = [p \in Procs2 |-> NoLoc]
  /\ ncmd = MaxCmds - 2
  /\ last = NoLast
  /\ cx = <<>>
  /\ \/ /\ vaultFile = NoFile
        /\ config = CfgRich
        /\ nextKey = 1
        /\ printed = [k \in KeyIds |-> 0]
     \/ /\ vaultFile = InitializedVault
        /\ config = InitializedConfig
        /\ nextKey = 2
        /\ printed = [k \in KeyIds |-> IF k = 1 THEN 1 ELSE 0]

NextConc ==
  \E p \in Procs2 :
    \/ InitStart(p)
    \/ InitConfig(p)
    \/ AddStart(p)
    \/ AddDecrypt(p)
    \/ AddProxy(p)
    \/ RemoveStart(p)
    \/ RemoveDecrypt(p)
    \/ RemoveProxy(p)
    \/ MigrateStart(p)
    \/ MigrateDecrypt(p)
    \/ EncWrite(p)
    \/ EncFlush(p)
    \/ EncRename(p)
    \/ WriteConfig(p)
    \/ LogKey(p)

SpecConc == InitConc /\ [][NextConc]_vars

\* invocation p of `add` has decrypted and enters encryptVault
AddEncrypts(p) == pc[p] = "add_decrypt" /\ pc'[p] = "enc_write"

\* the rename of invocation p takes place
Renames(p) == pc[p] = "enc_rename" /\ pc'[p] # "enc_rename"

\* C31: two concurrent adds are not coordinated: each encrypts the whole
\* SecretSet it decrypted with its own secret set in it, and each rename
\* makes the vault file exactly the file of the invocation that renames,
\* whatever the other one wrote before (last writer wins, never a mix).
C31_LastRenameWins ==
  [][\A p \in Procs2 :
       /\ AddEncrypts(p) =>
            loc'[p].cipher.body =
              serializeVaultSecrets(MapSet(Stored(vaultFile), loc[p].name, loc[p].value))
       /\ (loc[p].cmd = "add" /\ Renames(p)) => vaultFile' = loc[p].cipher]_vars

\* both adds have renamed, under different names, and the vault holds only
\* one of the two names: the other change is lost
C31_LostUpdate ==
  /\ \A p \in Procs2 : loc[p].cmd = "add" /\ pc[p] = "add_proxy"
  /\ loc[1].name # loc[2].name
  /\ \E p \in Procs2 : ~MapHas(Stored(vaultFile), loc[p].name)


(***************************************************************************)
(* resolveAgeSecretKey(env, isTTY) on the environment map of the process,  *)
(* with the answer the operator types when a terminal is there; afterwards *)
(* the process spawns a child, which inherits the environment.             *)
(***************************************************************************)
MaxKeyLen == 3

S_HOME == <<"H","O","M","E">>
KeyChars == {"K", " ", NL}

\* AGE_SECRET_KEY in the environment: not there, or any short string
EnvKeys == {Undefined} \cup StringsUpTo(KeyChars, MaxKeyLen)

\* process.env with AGE_SECRET_KEY = key among other variables
EnvWith(key) ==
  IF key = Undefined THEN << <<S_HOME, <<"h">>>> >>
  ELSE << <<S_HOME, <<"h">>>>, <<S_AGE_SECRET_KEY, key>> >>

\* what the operator types at the prompt
Answers == {<<>>, <<" ">>, <<" ", "K", NL>>}

\* a resolver that leaves the key in the environment
resolveAgeSecretKeyKeep(env, isTTY, answer) ==
  LET envKey == IF MapHas(env, S_AGE_SECRET_KEY) THEN Trim(MapGet(env, S_AGE_SECRET_KEY))
                ELSE <<>>
  IN  IF envKey # <<>> THEN [err |-> "", key |-> envKey, env |-> env]
      ELSE IF isTTY /\ Trim(answer) # <<>>
        THEN [err |-> "", key |-> Trim(answer), env |-> env]
      ELSE [err |-> "KeyUnavailable", key |-> Undefined, env |-> env]

\* resolveAgeSecretKey(env, isTTY): [err, key, env]; env is the map afterwards
resolveAgeSecretKeyIn(env, isTTY, answer) ==
  LET envKey == IF MapHas(env, S_AGE_SECRET_KEY) THEN Trim(MapGet(env, S_AGE_SECRET_KEY))
                ELSE <<>>
  IN  IF envKey # <<>>
        THEN [err |-> "", key |-> envKey, env |-> MapDelete(env, S_AGE_SECRET_KEY)]
      ELSE IF isTTY /\ Trim(answer) # <<>>
        THEN [err |-> "", key |-> Trim(answer), env |-> env]
      ELSE [err |-> "KeyUnavailable", key |-> Undefined, env |-> env]

InitKey ==
  /\ InitCLI
  /\ config = CfgEmpty
  /\ \E key \in EnvKeys, isTTY \in BOOLEAN, answer \in Answers :
       /\ (~isTTY => answer = <<>>)
       /\ cx = [stage |-> "start", given |-> key, isTTY |-> isTTY, answer |-> answer,
                env |-> EnvWith(key), err |-> "", key |-> Undefined, childEnv |-> EmptyMap]

\* the command calls resolveAgeSecretKey()
KeyResolve ==
  /\ cx.stage = "start"
  /\ LET r == resolveAgeSecretKeyIn(cx.env, cx.isTTY, cx.answer)
     IN  cx' = [cx EXCEPT !.stage = IF r.err = "" THEN "resolved" ELSE "failed",
                          !.err = r.err, !.key = r.key, !.env = r.env]
  /\ UNCHANGED <<vaultFile, tmpFile, orphans, config, pc, loc, nextKey, printed, ncmd, last>>

\* later in the same run a child process is spawned with process.env
KeySpawn ==
  /\ cx.stage \in {"resolved", "failed"}
  /\ cx' = [cx EXCEPT !.stage = "spawned", !.childEnv = cx.env]
  /\ UNCHANGED <<vaultFile, tmpFile, orphans, config, pc, loc, nextKey, printed, ncmd, last>>

NextKey ==
  \/ KeyResolve
  \/ KeySpawn

SpecKey == InitKey /\ [][NextKey]_vars

\* the environment held a key that is not blank
EnvKeyGiven == cx.given # Undefined /\ Trim(cx.given) # <<>>

\* C32: with a non-empty AGE_SECRET_KEY in the environment the resolver
\* returns it trimmed and has deleted it from the environment, so no later
\* reader sees it; without an environment key and without a terminal it fails
\* with KeyUnavailable and returns no key.
C32_EnvKeyTrimmedAndCleared ==
  /\ (cx.stage # "start" /\ EnvKeyGiven) =>
       /\ cx.err = ""
       /\ cx.key = Trim(cx.given)
       /\ ~MapHas(cx.env, S_AGE_SECRET_KEY)
       /\ ~MapHas(cx.childEnv, S_AGE_SECRET_KEY)
       /\ MapHas(cx.env, S_HOME)
  /\ (cx.stage # "start" /\ cx.given = Undefined /\ ~cx.isTTY) =>
       /\ cx.err = "KeyUnavailable"
       /\ cx.key = Undefined

\* a key given in whitespace was returned trimmed and the child spawned
\* afterwards does not inherit it
C32_Witness ==
  /\ cx.stage = "spawned"
  /\ cx.given = <<" ", "K", NL>>
  /\ cx.key = <<"K">>
  /\ ~MapHas(cx.childEnv, S_AGE_SECRET_KEY)

\* the call failed for want of a key and of a terminal
C32_WitnessUnavailable ==
  /\ cx.stage = "failed"
  /\ cx.given = Undefined
  /\ ~cx.isTTY


(***************************************************************************)
(* Invariants of the configuration and of the vault under the sequential   *)
(* CLI (Spec).                                                             *)
(***************************************************************************)
\* a provider of the registry, or a name validateProviderName accepts
ProxyKeyOk(key) == RegistryIndex(key) # 0 \/ ValidProviderName(key)

\* http://<host>:<port> with a valid host and a port in 1..65535
ProxyUrlOk(url) ==
  /\ Len(url) > Len(HttpPrefix)
  /\ SubSeq(url, 1, Len(HttpPrefix)) = HttpPrefix
  /\ LET rest == SubSeq(url, Len(HttpPrefix) + 1, Len(url))
         colon == IndexOf(rest, ":")
     IN  /\ colon > 0
         /\ ValidHostname(SubSeq(rest, 1, colon - 1))
         /\ ParsePort(SubSeq(rest, colon + 1, Len(rest)), 0) \in 1..65535

\* C33: every key of vault.proxies is a provider of the registry or a valid
\* custom provider name, and every URL has the form http://<host>:<port>
\* with a valid host and a port in 1..65535.
C33_ProxiesWellFormed ==
  \A i \in DOMAIN config.proxies :
    /\ ProxyKeyOk(config.proxies[i][1])
    /\ ProxyUrlOk(config.proxies[i][2])

\* C33 without the keys migrate takes from models.providers
C33_UrlsWellFormed ==
  \A i \in DOMAIN config.proxies : ProxyUrlOk(config.proxies[i][2])

\* the names of the secrets in a file of the vault
StoredNames(file) == MapKeys(Stored(file))

\* C34 for the configurations of Spec: every secret name stored in the
\* vault matches [A-Z][A-Z0-9_]*
C34_StoredNamesValid ==
  vaultFile.kind = "age" => \A n \in StoredNames(vaultFile) : ValidSecretName(n)

(***************************************************************************)
(* migrate's derivation of account-qualified secret names (SpecNames): a   *)
(* configuration with one telegram account whose id is drawn from the      *)
(* keys a JSON object can have, scanned and written into an empty          *)
(* SecretSet as migrate does.                                              *)
(***************************************************************************)
MaxAcctLen == 3
AcctChars == {"a", "B", "1", "-"}
AcctIds == StringsUpTo(AcctChars, MaxAcctLen) \ {<<>>}

\* channels.telegram.accounts.<acctId>.botToken = "tw"
CfgAccount(acctId) ==
  Config(FALSE, Undefined, EmptyMap, EmptyMap,
         Obj(<< <<S_telegram,
                  Obj(<< <<S_accounts,
                           Obj(<< <<acctId, Obj(<< <<S_botToken, Str(<<"t","w">>)>> >>)>>
                               >>)>> >>)>> >>))

InitNames ==
  /\ InitCLI
  /\ config = CfgEmpty
  /\ \E acctId \in AcctIds :
       cx = [stage |-> "config", acctId |-> acctId, secrets |-> EmptyMap]

\* the scan of the channels and the loop that sets the secrets
NamesMigrate ==
  /\ cx.stage = "config"
  /\ cx' = [cx EXCEPT !.stage = "migrated",
                      !.secrets = MigratedSecrets(EmptyMap, <<>>,
                                    channelTokensToMigrate(CfgAccount(cx.acctId)))]
  /\ UNCHANGED <<vaultFile, tmpFile, orphans, config, pc, loc, nextKey, printed, ncmd, last>>

NextNames == NamesMigrate

SpecNames == InitNames /\ [][NextNames]_vars

\* C34: every secret name migrate derives from the configuration and puts
\* into the SecretSet matches [A-Z][A-Z0-9_]*, so the sidecar's name check
\* accepts it.
C34_MigratedNamesValid ==
  cx.stage = "migrated" =>
    \A n \in MapKeys(cx.secrets) : ValidSecretName(n) /\ shellNameOk(n)

\* C34 for the account ids made of letters and digits only
C34_AlnumAccountsValid ==
  (cx.stage = "migrated" /\ \A i \in DOMAIN cx.acctId : cx.acctId[i] # "-") =>
    \A n \in MapKeys(cx.secrets) : ValidSecretName(n) /\ shellNameOk(n)

(***************************************************************************)
(* Failure atomicity of init, add and remove (Spec).                       *)
(***************************************************************************)
\* the errors of the commands' own checks (not an I/O failure, not a kill)
CheckErrors ==
  {"AlreadyExists", "InvalidName", "InvalidProviderName", "InvalidPort",
   "PortProviderMismatch", "InvalidHostname", "MissingPublicKey", "NotFound",
   "SecretNotFound", "KeyUnavailable", "DecryptionFailed", "EmptyValue", "NoValue"}

\* the invocation that just ended was cmd and threw one of the check errors
FailedCheck(cmd) == Idle /\ last.cmd = cmd /\ last.err \in CheckErrors

\* the vault file and the configuration are as the last invocation found them
Untouched == vaultFile = last.pre.vaultFile /\ config = last.pre.config

\* C35: whenever init, add or remove ends with an error of one of its
\* checks, the vault file and the configuration are exactly as they were
\* before the invocation.
C35_FailureLeavesNoTrace ==
  (FailedCheck("init") \/ FailedCheck("add") \/ FailedCheck("remove")) => Untouched

\* C35 for the errors other than InvalidHostname
C35_EarlyChecksLeaveNoTrace ==
  ((FailedCheck("init") \/ FailedCheck("add") \/ FailedCheck("remove"))
     /\ last.err # "InvalidHostname") => Untouched

\* C35 for remove alone
C35_RemoveLeavesNoTrace == FailedCheck("remove") => Untouched

(***************************************************************************)
(* migrate keeps every credential it moves (Spec, kills included).         *)
(***************************************************************************)
\* the credentials an invocation of migrate set out to move
MigratingCreds(l) ==
  {l.provs[j].apiKey : j \in DOMAIN l.provs} \cup {l.chans[j].token : j \in DOMAIN l.chans}

\* the secret names it set out to write, one per credential
MigratingNames(l) ==
  [j \in 1..(Len(l.provs) + Len(l.chans)) |->
     IF j <= Len(l.provs) THEN l.provs[j].secretName
     ELSE l.chans[j - Len(l.provs)].secretName]

\* the credentials still in plaintext in a configuration
PlaintextCreds(cfg) ==
  LET scan == ScanProviders(cfg.providers, S_vault, <<>>).list
      chans == channelTokensToMigrate(cfg)
  IN  {scan[j].apiKey : j \in DOMAIN scan} \cup {chans[j].token : j \in DOMAIN chans}

\* the values the stored vault file holds
VaultedCreds == {Stored(vaultFile)[j][2] : j \in DOMAIN Stored(vaultFile)}

Kept(l) == MigratingCreds(l) \subseteq (PlaintextCreds(config) \cup VaultedCreds)

\* C36: at every step of a non-dry-run migrate, also when it is killed or
\* fails between steps, and after it ends, every provider credential and
\* channel token being migrated is in the stored configuration in plaintext
\* or in the stored vault file.
C36_NoCredentialLost ==
  /\ \A p \in Procs : (loc[p].cmd = "migrate" /\ ~loc[p].dryRun) => Kept(loc[p])
  /\ (Idle /\ last.cmd = "migrate" /\ ~last.dryRun) => Kept(last)

\* no two credentials of the invocation go under one secret name
DistinctNames(l) ==
  \A i, j \in DOMAIN MigratingNames(l) :
    MigratingNames(l)[i] = MigratingNames(l)[j] => i = j

\* C36 for the invocations whose credentials get pairwise distinct names
C36_NoLossWithoutCollision ==
  /\ \A p \in Procs :
       (loc[p].cmd = "migrate" /\ ~loc[p].dryRun /\ DistinctNames(loc[p])) => Kept(loc[p])
  /\ (Idle /\ last.cmd = "migrate" /\ ~last.dryRun /\ DistinctNames(last)) => Kept(last)

\* a migrate of distinctly named credentials has stripped the configuration
C36_StrippedAfterWrite ==
  /\ MigrateRan /\ last.err = "" /\ DistinctNames(last)
  /\ MigratingCreds(last) # {}
  /\ MigratingCreds(last) \cap PlaintextCreds(config) = {}
  /\ MigratingCreds(last) \subseteq VaultedCreds

(***************************************************************************)
(* The sequential CLI when every invocation completes successfully         *)
(* (SpecSuccess): the steps of Spec that do not end an invocation with an  *)
(* error, a failed rename or a kill.                                       *)
(***************************************************************************)
\* the step does not end an invocation with an error
Succeeds == last'.err = ""

NextSuccess ==
  \E p \in Procs :
    \/ InitStart(p) /\ Succeeds
    \/ InitConfig(p) /\ Succeeds
    \/ AddStart(p) /\ Succeeds
    \/ AddDecrypt(p) /\ Succeeds
    \/ AddProxy(p) /\ Succeeds
    \/ RemoveStart(p) /\ Succeeds
    \/ RemoveDecrypt(p) /\ Succeeds
    \/ RemoveProxy(p) /\ Succeeds
    \/ List(p) /\ Succeeds
    \/ Status(p) /\ Succeeds
    \/ MigrateStart(p) /\ Succeeds
    \/ MigrateDecrypt(p) /\ Succeeds
    \/ EncWrite(p) /\ Succeeds
    \/ EncFlush(p) /\ Succeeds
    \/ EncRename(p) /\ Succeeds
    \/ WriteConfig(p) /\ Succeeds
    \/ LogKey(p) /\ Succeeds

SpecSuccess == Init /\ [][NextSuccess]_vars

\* C37: after any sequence of init, add, remove and migrate invocations that
\* each completed successfully, started with no vault file and no
\* vault.publicKey, an existing vault file is encrypted to exactly the
\* recipient stored in vault.publicKey.
C37_VaultMatchesPublicKey ==
  (Idle /\ vaultFile.kind # "absent") =>
    /\ vaultFile.kind = "age"
    /\ vaultFile.rcpt = config.publicKey
    /\ decryptVault(vaultFile, Identity(config.publicKey[2])).err = ""

\* init --force has replaced the first key and a later add has succeeded
C37_AddAfterRotation ==
  /\ Idle /\ last.cmd = "add" /\ last.err = ""
  /\ last.prev.cmd = "init" /\ last.prev.err = ""
  /\ config.publicKey = generateKeypair(2).recipient
  /\ vaultFile.rcpt = config.publicKey
  /\ Stored(vaultFile) # EmptyMap

(***************************************************************************)
(* The recipient of the vault under two concurrent invocations (SpecConc). *)
(***************************************************************************)
AllIdle == \A p \in Procs2 : pc[p] = "idle"

\* C38: no interleaving of two concurrently running commands ends in a
\* state where the vault file is encrypted to a recipient different from the
\* one stored in vault.publicKey.
C38_NoRecipientMismatch ==
  (AllIdle /\ vaultFile.kind = "age") => vaultFile.rcpt = config.publicKey

\* init --force has completed and stored its new recipient while an add that
\* read the old one is about to rename its ciphertext over the vault
C38_AddHoldsOldRecipient ==
  \E p, q \in Procs2 :
    /\ pc[q] = "idle" /\ last.cmd = "init" /\ last.err = "" /\ last.force
    /\ vaultFile.kind = "age" /\ vaultFile.rcpt = config.publicKey
    /\ pc[p] = "enc_rename" /\ loc[p].cmd = "add"
    /\ tmpFile[p].kind = "age" /\ tmpFile[p].rcpt # config.publicKey

\* the same race ended: both idle, the add was the last to end, without
\* error, and the vault is under the recipient init replaced
C38_AddInstalledOldRecipient ==
  /\ AllIdle /\ last.cmd = "add" /\ last.err = ""
  /\ vaultFile.kind = "age"
  /\ config.publicKey = generateKeypair(2).recipient
  /\ vaultFile.rcpt = generateKeypair(1).recipient

(***************************************************************************)
(* Repeated calls of fetchVaultChannelTokens on the module's token store   *)
(* (SpecRefetch). The calls pass no log callback; `requested` collects the *)
(* secret names of the URLs fetched.                                       *)
(***************************************************************************)
MaxCalls == 2

InitRefetch ==
  /\ InitCLI
  /\ config = CfgEmpty
  /\ cx = [stage |-> "idle", enabled |-> FALSE, i |-> 1, store |-> EmptyMap,
           requested |-> {}, calls |-> 0]

\* fetchVaultChannelTokens(cfg) is called
RefetchCall ==
  /\ cx.stage = "idle"
  /\ cx.calls < MaxCalls
  /\ \E enabled \in BOOLEAN :
       cx' = [cx EXCEPT !.stage = "called", !.enabled = enabled, !.i = 1,
                        !.calls = @ + 1]
  /\ UNCHANGED <<vaultFile, tmpFile, orphans, config, pc, loc, nextKey, printed, ncmd, last>>

\* one iteration of the loop over VAULT_CHANNEL_DEFAULTS
RefetchEntry ==
  /\ cx.stage = "called"
  /\ cx.enabled
  /\ cx.i <= Len(VAULT_CHANNEL_DEFAULTS)
  /\ \E o \in FetchOutcomes :
       LET entry == VAULT_CHANNEL_DEFAULTS[cx.i]
           st == fetchOne([store |-> cx.store, log |-> <<>>], entry, o)
       IN  cx' = [cx EXCEPT !.i = @ + 1, !.store = st.store,
                            !.requested = @ \cup {entry.secretName}]
  /\ UNCHANGED <<vaultFile, tmpFile, orphans, config, pc, loc, nextKey, printed, ncmd, last>>

\* the vault is not enabled, or the loop is over: the promise resolves
RefetchReturn ==
  /\ cx.stage = "called"
  /\ ~cx.enabled \/ cx.i > Len(VAULT_CHANNEL_DEFAULTS)
  /\ cx' = [cx EXCEPT !.stage = "idle"]
  /\ UNCHANGED <<vaultFile, tmpFile, orphans, config, pc, loc, nextKey, printed, ncmd, last>>

NextRefetch ==
  \/ RefetchCall
  \/ RefetchEntry
  \/ RefetchReturn

SpecRefetch == InitRefetch /\ [][NextRefetch]_vars

TableNames == {VAULT_CHANNEL_DEFAULTS[i].secretName : i \in DOMAIN VAULT_CHANNEL_DEFAULTS}

\* base name + "_" + a non-empty suffix, for a base name of the table
AccountQualified(name) ==
  \E base \in TableNames :
    /\ Len(name) > Len(base) + 1
    /\ SubSeq(name, 1, Len(base) + 1) = base \o <<"_">>

\* C39: after any number of fetchVaultChannelTokens calls the keys of the
\* token store are secret names of the static channel-token table, every
\* stored value is non-empty, and no account-qualified name (base name, "_",
\* uppercased account id) has been requested from the sidecar or is in the
\* store.
C39_StoreWithinTable ==
  /\ MapKeys(cx.store) \subseteq TableNames
  /\ \A j \in DOMAIN cx.store : cx.store[j][2] # <<>>
  /\ cx.requested \subseteq TableNames
  /\ \A name \in MapKeys(cx.store) \cup cx.requested : ~AccountQualified(name)

\* two calls have returned, the second with the vault disabled, and the
\* store still holds the tokens the first one loaded
C39_StoreKeptAcrossCalls ==
  /\ cx.stage = "idle" /\ cx.calls = MaxCalls /\ ~cx.enabled
  /\ MapKeys(cx.store) = TableNames
  /\ cx.requested = TableNames

(***************************************************************************)
(* The two readers of the vault plaintext (SpecRead): a SecretSet with     *)
(* valid names and newline-free values is serialized by the CLI, then read *)
(* back by parseVaultSecrets and by the export loop of the sidecar.        *)
(***************************************************************************)
MaxReadLen == 3
ReadChars == {"v", " ", DQ, "="}
ReadValues == StringsUpTo(ReadChars, MaxReadLen)
ReadNames == {S_OPENAI_API_KEY, S_MY_KEY}

\* one secret with any value, or two secrets with values of at most one
\* character
ReadSecretSets ==
  {<< <<n, v>> >> : n \in ReadNames, v \in ReadValues}
    \cup {<< <<S_OPENAI_API_KEY, v>>, <<S_MY_KEY, w>> >> :
            v \in StringsUpTo(ReadChars, 1), w \in StringsUpTo(ReadChars, 1)}

\* the lines `while read` sees: the newline-terminated ones
fileLines(text) ==
  LET parts == Split(text, NL)
  IN  SubSeq(parts, 1, Len(parts) - 1)

\* the shell before the export loop
FreshShell == [vars |-> << <<S_VAULT_VARS, <<>>>> >>, exported |-> {}, warnings |-> <<>>,
               everExported |-> {}]

InitRead ==
  /\ InitCLI
  /\ config = CfgEmpty
  /\ \E secrets \in ReadSecretSets :
       cx = [stage |-> "input", secrets |-> secrets, text |-> <<>>, cliRead |-> FALSE,
             cli |-> EmptyMap, sidecarRead |-> FALSE, sidecar |-> FreshShell]

\* encryptVault serializes the SecretSet; decryption gives the same text back
ReadSerialize ==
  /\ cx.stage = "input"
  /\ cx' = [cx EXCEPT !.stage = "serialized", !.text = serializeVaultSecrets(cx.secrets)]
  /\ UNCHANGED <<vaultFile, tmpFile, orphans, config, pc, loc, nextKey, printed, ncmd, last>>

\* decryptVault in the CLI: parseVaultSecrets(plaintext)
ReadCli ==
  /\ cx.stage = "serialized"
  /\ ~cx.cliRead
  /\ cx' = [cx EXCEPT !.cliRead = TRUE, !.cli = parseVaultSecrets(cx.text)]
  /\ UNCHANGED <<vaultFile, tmpFile, orphans, config, pc, loc, nextKey, printed, ncmd, last>>

\* the sidecar's loop over the decrypted env file
ReadSidecar ==
  /\ cx.stage = "serialized"
  /\ ~cx.sidecarRead
  /\ cx' = [cx EXCEPT !.sidecarRead = TRUE,
                      !.sidecar = exportLoop(FreshShell, fileLines(cx.text))]
  /\ UNCHANGED <<vaultFile, tmpFile, orphans, config, pc, loc, nextKey, printed, ncmd, last>>

NextRead ==
  \/ ReadSerialize
  \/ ReadCli
  \/ ReadSidecar

SpecRead == InitRead /\ [][NextRead]_vars

BothRead == cx.cliRead /\ cx.sidecarRead

\* the two readers give name the same value
SameValue(name) ==
  /\ MapHas(cx.cli, name)
  /\ name \in cx.sidecar.exported
  /\ PrintEnv(cx.sidecar, name) = MapGet(cx.cli, name)

\* C40: for every plaintext serializeVaultSecrets produces from a SecretSet
\* with valid names and newline-free values, the value the sidecar exports
\* for each name equals the value parseVaultSecrets returns for it.
C40_ReadersAgree ==
  BothRead => \A name \in MapKeys(cx.secrets) : SameValue(name)

\* no blank at either end, not wrapped in quotes, and not ending in the only
\* "=" of the value
PlainValue(v) ==
  /\ Trim(v) = v
  /\ StripQuotes(v) = v
  /\ ~(v # <<>> /\ IndexOf(v, "=") = Len(v))

\* C40 for the SecretSets of plain values: both readers return the value
\* that was stored
C40_PlainValuesAgree ==
  (BothRead /\ \A j \in DOMAIN cx.secrets : PlainValue(cx.secrets[j][2])) =>
    \A j \in DOMAIN cx.secrets :
      /\ SameValue(cx.secrets[j][1])
      /\ MapGet(cx.cli, cx.secrets[j][1]) = cx.secrets[j][2]

\* a value with an embedded "=" read alike by both
C40_EmbeddedEqualsAgree ==
  /\ BothRead
  /\ cx.secrets = << <<S_MY_KEY, <<"v", "=", "v">>>> >>
  /\ SameValue(S_MY_KEY)

====
